---- MODULE Spec2Model ----
(***************************************************************************)
(* Analysis pipeline of micro-sre.                                         *)
(*                                                                         *)
(*   Spec      the AlertManager webhook handler (batch fan-out):           *)
(*             internal/api/handlers.go, Handler.ReceiveAlertManagerWebhook *)
(*             with the calls it makes into internal/agent and the store.  *)
(*   SpecIso   the same handler, the same batch delivered a second time    *)
(*             with one alert's collector call made to fail.               *)
(*   SpecParse the report normaliser of internal/agent/agent.go:           *)
(*             extractJSON, extractAndParseJSON, parseAnalysisResponse.    *)
(***************************************************************************)
EXTENDS Integers, Sequences, FiniteSets, Bags, TLC

(***************************************************************************)
(* Bounds of the model.                                                    *)
(***************************************************************************)
MaxAlerts == 2

\* The readings of the wall clock run from 0 to MaxClock.
MaxClock == 1

(***************************************************************************)
(* Alerts.  Labels is a Go map[string]string: a function whose domain is   *)
(* the set of keys present.                                                *)
(***************************************************************************)
NoLabels == [k \in {} |-> ""]

\* The alerts a webhook may carry.
Alerts ==
    { \* namespace + pod
      [Fingerprint |-> "fp1", Status |-> "firing",
       Labels |-> ("namespace" :> "prod") @@ ("pod" :> "api") @@
                  ("alertname" :> "PodCrashLooping") @@ ("severity" :> "critical")],
      \* alternative labels only
      [Fingerprint |-> "fp2", Status |-> "firing",
       Labels |-> ("kubernetes_namespace" :> "prod") @@ ("pod_name" :> "db")],
      \* lacks pod and pod_name
      [Fingerprint |-> "fp2", Status |-> "resolved",
       Labels |-> ("namespace" :> "prod") @@ ("alertname" :> "PodNotReady")],
      \* cluster-level alert without labels
      [Fingerprint |-> "fp3", Status |-> "firing", Labels |-> NoLabels],
      \* namespace label present but empty
      [Fingerprint |-> "fp3", Status |-> "firing",
       Labels |-> ("namespace" :> "") @@ ("kubernetes_namespace" :> "prod") @@
                  ("pod" :> "api")] }

RECURSIVE SeqsUpTo(_, _)
SeqsUpTo(S, n) ==
    IF n = 0 THEN { <<>> }
    ELSE LET shorter == SeqsUpTo(S, n - 1)
         IN shorter \cup { Append(s, x) : s \in { t \in shorter : Len(t) = n - 1 }, x \in S }

\* models.Alert accessors
GetNamespace(a) ==
    IF "namespace" \in DOMAIN a.Labels THEN a.Labels["namespace"]
    ELSE IF "kubernetes_namespace" \in DOMAIN a.Labels THEN a.Labels["kubernetes_namespace"]
    ELSE ""

GetPodName(a) ==
    IF "pod" \in DOMAIN a.Labels THEN a.Labels["pod"]
    ELSE IF "pod_name" \in DOMAIN a.Labels THEN a.Labels["pod_name"]
    ELSE ""

GetSeverity(a) ==
    IF "severity" \in DOMAIN a.Labels THEN a.Labels["severity"] ELSE "unknown"

GetAlertName(a) ==
    IF "alertname" \in DOMAIN a.Labels THEN a.Labels["alertname"] ELSE "unknown"

(***************************************************************************)
(* State of one webhook delivery.                                          *)
(***************************************************************************)
VARIABLES
    webhook,    \* the request body: [ok: whether ShouldBindJSON succeeds, Alerts]
    hpc,        \* position of the handler goroutine
    spawned,    \* number of loop iterations done (goroutines launched)
    wg,         \* sync.WaitGroup counter
    mu,         \* sync.Mutex: 0 when free, else the task holding it
    results,    \* []models.AlertAnalysisResult
    errors,     \* []models.AlertAnalysisError
    response,   \* models.WebhookAnalysisResponse, NoResponse until built
    status,     \* HTTP status written, 0 until written
    tpc,        \* position of each per-alert goroutine
    terr,       \* per task: message of the error it is about to record
    tres,       \* per task: *models.AnalysisResult returned by AnalyzeAlert
    calls,      \* per task: the external calls made so far, in order
    store,      \* rows of the analyses table
    now,        \* wall clock
    run,        \* 1 in the first run of the batch, 2 in the repeated run
    flipped,    \* repeated run: the alert whose collector call is made to fail
    replay,     \* repeated run: the outcomes the collaborators gave in the first run
    first,      \* repeated run: the outcome of each alert in the first run
    expired,    \* whether the deadline of the batch context has elapsed
    tbuf,       \* per task: the slice its append loaded, <<>> outside an append
    text,       \* normaliser: the reply of the model (analysisText)
    ppc,        \* normaliser: position in parseAnalysisResponse
    sc,         \* extractJSON: startIdx, i, braceCount, inString, escaped
    jsonStr,    \* what extractJSON returned
    analysis,   \* models.Analysis returned by extractAndParseJSON
    result,     \* *models.AnalysisResult returned by parseAnalysisResponse
    clock,      \* normaliser: wall clock
    prev,       \* the result of an earlier normalisation of the same reply
    llmClient,  \* analyzer: the llm.Client the agent was built with
    apc,        \* analyzer: position in AnalyzeAlert
    podInfo,    \* analyzer: *collectors.PodInfo
    fetched,    \* analyzer: how the three requests of GetPodInfo ended
    prompt,     \* analyzer: the prompt built for the model
    aret,       \* analyzer: the pair AnalyzeAlert returned
    steps,      \* analyzer: the steps of the analysis started so far, in order
    tsIn,       \* parseTimestamp: the string ts
    tsFmt,      \* parseTimestamp: index of the layout tried next, 0 before the call
    tsOut,      \* parseTimestamp: the time returned, NoTime before the return
    saved       \* store: the SaveAnalysis calls made so far, in order

bvars == <<webhook, hpc, spawned, wg, mu, results, errors, response, status,
           tpc, terr, tres, calls, store, now, run, flipped, replay, first, expired,
           tbuf>>

pvars == <<text, ppc, sc, jsonStr, analysis, result, clock, prev>>

avars == <<llmClient, apc, podInfo, fetched, prompt, aret, steps>>

tvars == <<tsIn, tsFmt, tsOut>>

svars == <<saved>>

NoResponse == [Received |-> -1]
NoResult == [Alert |-> "nil"]
NoScan == [startIdx |-> -1, i |-> 0, braceCount |-> 0, inString |-> FALSE, escaped |-> FALSE]
NoAnalysis == [RootCause |-> "nil"]
NotExtracted == <<"?">>
NoPodInfo == [Pod |-> "nil", Containers |-> 0, Logs |-> "", Events |-> <<>>]
NoFetch == [pod |-> "none"]
NoPrompt == [Namespace |-> "nil"]
NoReturn == [result |-> "none", err |-> "none"]

NoTime == [date |-> "nil", time |-> "", frac |-> "", zone |-> "", wall |-> -1]

\* No analysis of a single target and no call of parseTimestamp by itself
\* is in progress.
\* no SaveAnalysis call made
StoreIdle == saved = <<>>

AnalyzerIdle ==
    /\ tsIn = <<>>
    /\ tsFmt = 0
    /\ tsOut = NoTime
    /\ llmClient = "none"
    /\ apc = "off"
    /\ podInfo = NoPodInfo
    /\ fetched = NoFetch
    /\ prompt = NoPrompt
    /\ aret = NoReturn
    /\ steps = <<>>

Tasks == 1 .. Len(webhook.Alerts)

\* handlers.go:162
Lookback == 3600

\* Variant: the guard tests the namespace alone.
IsSkippedNamespaceOnly(namespace, podName) == namespace = ""

\* handlers.go:185  the guard of the skip branch
IsSkipped(namespace, podName) == namespace = "" \/ podName = ""

\* handlers.go:194
MissingLabelsError == "missing namespace or pod in alert labels"

\* Variant: the goroutine reads the loop variable it captured instead of
\* an argument, and finds the last alert of the batch in it.
TaskAlertCaptured(j) == webhook.Alerts[Len(webhook.Alerts)]

\* handlers.go:175,253  the goroutine receives its alert as an argument
TaskAlert(j) == webhook.Alerts[j]

\* agent.go:89  fmt.Errorf("failed to collect data: %v", errors)
CollectError(o) ==
    CASE o = "deadline" ->
            "failed to collect data: [failed to get pod: context deadline exceeded]"
      [] o = "cancelled" ->
            "failed to collect data: [failed to get pod: context canceled]"
      [] OTHER -> "failed to collect data: [failed to get pod: not found]"

\* agent.go:99  fmt.Errorf("LLM analysis failed: %w", err)
ModelError(o) ==
    CASE o = "deadline" -> "LLM analysis failed: context deadline exceeded"
      [] o = "cancelled" -> "LLM analysis failed: context canceled"
      [] OTHER -> "LLM analysis failed: provider error"

\* Outcomes of the calls to the collaborators: a result, an error of the
\* collaborator, or the error of a call cut short by the batch deadline.
CallOutcomes == {"ok", "error", "deadline"}

\* What a collaborator answers by itself to a call of the batch.
Answers == {"ok", "error"}

\* Variant: the first failing task cancels the context of the others, as an
\* errgroup would.
CtxCancelledOnFailure ==
    hpc = "done" \/ \E k \in DOMAIN terr : terr[k] # ""

\* handlers.go:158-159  besides its deadline, the context shared by the tasks
\* is cancelled only by the deferred cancel(), when the handler returns.
CtxCancelled == hpc = "done"

\* Variant: every task has a deadline of its own, and that of the first
\* task is the one that has elapsed.
DeadlineElapsedPerAlert(j) == expired /\ j = 1

\* handlers.go:158, 209  one context with one deadline is made before the
\* loop and handed to every task.
DeadlineElapsed(j) == expired

\* What a call that task j makes with the shared context returns, the
\* collaborator answering o.
CallReturns(j, o) ==
    IF CtxCancelled THEN "cancelled"
    ELSE IF DeadlineElapsed(j) THEN "deadline"
    ELSE o

\* The outcomes the k-th call of task j may have.  In the repeated run the
\* collaborators answer as in the first run, except that the collector call
\* of the flipped alert fails.
Outcomes(j, k, all) ==
    IF run = 1 THEN all
    ELSE IF j = flipped /\ k = 1 THEN {"error", "deadline"}
    ELSE IF k <= Len(replay[j]) THEN {replay[j][k][2]}
    ELSE all

\* agent.go:197-225  parseAnalysisResponse: the result built around the
\* normalised reply of the model (the reply of task j is kept abstract here).
AnalysisResult(j, req, t) ==
    [Alert |-> [Name |-> "PodIncident", Namespace |-> req.Namespace,
                Pod |-> req.PodName, StartedAt |-> t - req.Lookback],
     Analysis |-> [reply |-> j]]

\* handlers.go:201-206
AnalysisReq(a) ==
    [AlertFingerprint |-> a.Fingerprint, Namespace |-> GetNamespace(a),
     PodName |-> GetPodName(a), Lookback |-> Lookback]

\* handlers.go:191-195, 218-222
ErrorEntry(j, a, msg) ==
    [idx |-> j, Fingerprint |-> a.Fingerprint, AlertName |-> GetAlertName(a), Error |-> msg]

\* Variant: result is declared outside the goroutines and shared by them,
\* so that an entry gets the report written last.
ResultEntrySharedResult(j, a, res) ==
    LET written == { k \in Tasks : tres[k] # NoResult }
        last == CHOOSE k \in written : \A m \in written : m <= k
    IN [idx |-> j, Fingerprint |-> a.Fingerprint, AlertName |-> GetAlertName(a),
        Namespace |-> GetNamespace(a), Pod |-> GetPodName(a),
        Severity |-> GetSeverity(a), Status |-> a.Status,
        Analysis |-> tres[last].Analysis]

\* handlers.go:237-246
ResultEntry(j, a, res) ==
    [idx |-> j, Fingerprint |-> a.Fingerprint, AlertName |-> GetAlertName(a),
     Namespace |-> GetNamespace(a), Pod |-> GetPodName(a),
     Severity |-> GetSeverity(a), Status |-> a.Status, Analysis |-> res.Analysis]

\* database: ON CONFLICT(namespace, pod_name, alert_started_at) DO UPDATE
\* Variant: a plain INSERT, without the UNIQUE constraint and its conflict clause.
SaveAnalysisInsert(rows, res, t) ==
    rows \cup { [created_at |-> t, alert_name |-> res.Alert.Name,
                 namespace |-> res.Alert.Namespace, pod_name |-> res.Alert.Pod,
                 alert_started_at |-> res.Alert.StartedAt, analysis |-> res.Analysis] }

\* part_008:13-31, 82-121  INSERT ... ON CONFLICT(namespace, pod_name,
\* alert_started_at) DO UPDATE SET created_at, alert_name, ..., analysis_json:
\* the row of the same key, if any, is replaced in every column but the key;
\* created_at is time.Now() of the call.  The columns root_cause, confidence
\* and analysis_json are all taken from the report and stand as one field;
\* AlertSummary.Severity is never assigned, so that column is always "".
SaveAnalysis(rows, res, t) ==
    { r \in rows : ~ ( r.namespace = res.Alert.Namespace /\ r.pod_name = res.Alert.Pod
                       /\ r.alert_started_at = res.Alert.StartedAt ) }
    \cup { [created_at |-> t, alert_name |-> res.Alert.Name,
            namespace |-> res.Alert.Namespace, pod_name |-> res.Alert.Pod,
            alert_started_at |-> res.Alert.StartedAt, analysis |-> res.Analysis] }

\* Variant: no barrier.
WaitReturnsAtOnce == TRUE

\* handlers.go:257  wg.Wait() returns
WaitReturns == wg = 0

\* Variant: Received counts the analysed alerts.
BuildResponseReceivedAnalyzed(alerts, res, errs) ==
    [Received |-> Len(res), Analyzed |-> Len(res), Failed |-> Len(errs),
     Results |-> res, Errors |-> errs]

\* handlers.go:260-266
BuildResponse(alerts, res, errs) ==
    [Received |-> Len(alerts), Analyzed |-> Len(res), Failed |-> Len(errs),
     Results |-> res, Errors |-> errs]

\* Variant: a batch without a single analysed alert is answered as an error.
ResponseStatusFailsWhenNoneAnalyzed(resp) ==
    IF resp.Received > 0 /\ resp.Analyzed = 0 THEN 500 ELSE 200

\* handlers.go:274  "Return 200 even with partial failures"
ResponseStatus(resp) == 200

\* Variant: the failure branch ends the goroutine without signalling the barrier.
AfterErrorUnlockUnsignalled == "done"

\* handlers.go:224  the return that ends the failure branch
AfterErrorUnlock == "exit"

InitHandler ==
    /\ webhook \in { [ok |-> b, Alerts |-> as] :
                        b \in BOOLEAN, as \in SeqsUpTo(Alerts, MaxAlerts) }
    /\ (~ webhook.ok => webhook.Alerts = <<>>)
    /\ hpc = "bind"
    /\ spawned = 0
    /\ wg = 0
    /\ mu = 0
    /\ results = <<>>
    /\ errors = <<>>
    /\ response = NoResponse
    /\ status = 0
    /\ tpc = [j \in Tasks |-> "idle"]
    /\ terr = [j \in Tasks |-> ""]
    /\ tres = [j \in Tasks |-> NoResult]
    /\ calls = [j \in Tasks |-> <<>>]
    /\ store = {}
    /\ now = 0
    /\ run = 1
    /\ flipped = 0
    /\ replay = <<>>
    /\ first = <<>>
    /\ expired = FALSE
    /\ tbuf = [j \in DOMAIN tpc |-> <<>>]

\* The webhook handler, the normaliser at rest.
InitBatch ==
    /\ InitHandler
    /\ text = <<>>
    /\ ppc = "off"
    /\ sc = NoScan
    /\ jsonStr = NotExtracted
    /\ analysis = NoAnalysis
    /\ result = NoResult
    /\ clock = 0
    /\ prev = NoResult
    /\ AnalyzerIdle
    /\ StoreIdle

(***************************************************************************)
(* The handler goroutine.                                                  *)
(***************************************************************************)
\* handlers.go:145-150
Bind ==
    /\ hpc = "bind"
    /\ IF webhook.ok
       THEN hpc' = "loop" /\ status' = status
       ELSE hpc' = "done" /\ status' = 400
    /\ UNCHANGED <<webhook, spawned, wg, mu, results, errors, response,
                   tpc, terr, tres, calls, store, now,
                   run, flipped, replay, first, expired, tbuf, pvars, avars, tvars, svars>>

\* handlers.go:173-175  one loop iteration: wg.Add(1); go func(alert)
Spawn ==
    /\ hpc = "loop"
    /\ spawned < Len(webhook.Alerts)
    /\ spawned' = spawned + 1
    /\ wg' = wg + 1
    /\ tpc' = [tpc EXCEPT ![spawned + 1] = "start"]
    /\ UNCHANGED <<webhook, hpc, mu, results, errors, response, status,
                   terr, tres, calls, store, now,
                   run, flipped, replay, first, expired, tbuf, pvars, avars, tvars, svars>>

\* handlers.go:257
Wait ==
    /\ hpc = "loop"
    /\ spawned = Len(webhook.Alerts)
    /\ WaitReturns
    /\ hpc' = "respond"
    /\ UNCHANGED <<webhook, spawned, wg, mu, results, errors, response, status,
                   tpc, terr, tres, calls, store, now,
                   run, flipped, replay, first, expired, tbuf, pvars, avars, tvars, svars>>

\* handlers.go:260-274
Respond ==
    /\ hpc = "respond"
    /\ response' = BuildResponse(webhook.Alerts, results, errors)
    /\ status' = ResponseStatus(response')
    /\ hpc' = "done"
    /\ UNCHANGED <<webhook, spawned, wg, mu, results, errors,
                   tpc, terr, tres, calls, store, now,
                   run, flipped, replay, first, expired, tbuf, pvars, avars, tvars, svars>>

(***************************************************************************)
(* The per-alert goroutine.                                                *)
(***************************************************************************)
\* handlers.go:178-198 up to the lock
Validate(j) ==
    /\ tpc[j] = "start"
    /\ LET a == TaskAlert(j)
       IN IF IsSkipped(GetNamespace(a), GetPodName(a))
          THEN /\ terr' = [terr EXCEPT ![j] = MissingLabelsError]
               /\ tpc' = [tpc EXCEPT ![j] = "lockE"]
          ELSE /\ terr' = terr
               /\ tpc' = [tpc EXCEPT ![j] = "collect"]
    /\ UNCHANGED <<webhook, hpc, spawned, wg, mu, results, errors, response, status,
                   tres, calls, store, now,
                   run, flipped, replay, first, expired, tbuf, pvars, avars, tvars, svars>>

\* Variant: one result variable declared outside the loop.
ResultVarShared(j) == 1

\* handlers.go:209  result, err := ... declares the variables of goroutine j
ResultVar(j) == j

\* handlers.go:209, agent.go:57-90  AnalyzeAlert up to the collector's return
Collect(j) ==
    /\ tpc[j] = "collect"
    /\ \E x \in Outcomes(j, 1, Answers) :
       LET o == CallReturns(j, x)
       IN /\ calls' = [calls EXCEPT ![j] = Append(@, <<"collector", o>>)]
          /\ IF o = "ok"
             THEN terr' = terr /\ tpc' = [tpc EXCEPT ![j] = "model"]
             ELSE /\ terr' = [terr EXCEPT ![j] = CollectError(o)]
                  /\ tpc' = [tpc EXCEPT ![j] = "lockE"]
    /\ UNCHANGED <<webhook, hpc, spawned, wg, mu, results, errors, response, status,
                   tres, store, now,
                   run, flipped, replay, first, expired, tbuf, pvars, avars, tvars, svars>>

\* agent.go:92-110  prompt, model call, parseAnalysisResponse
Model(j) ==
    /\ tpc[j] = "model"
    /\ \E x \in Outcomes(j, 2, Answers) :
       LET o == CallReturns(j, x)
       IN /\ calls' = [calls EXCEPT ![j] = Append(@, <<"model", o>>)]
          /\ IF o = "ok"
             THEN /\ now' \in {now, IF now < MaxClock THEN now + 1 ELSE now}
                  /\ tres' = [tres EXCEPT ![ResultVar(j)] =
                                AnalysisResult(j, AnalysisReq(TaskAlert(j)), now')]
                  /\ terr' = terr
                  /\ tpc' = [tpc EXCEPT ![j] = "save"]
             ELSE /\ terr' = [terr EXCEPT ![j] = ModelError(o)]
                  /\ tpc' = [tpc EXCEPT ![j] = "lockE"]
                  /\ UNCHANGED <<tres, now>>
    /\ UNCHANGED <<webhook, hpc, spawned, wg, mu, results, errors, response, status,
                   store,
                   run, flipped, replay, first, expired, tbuf, pvars, avars, tvars, svars>>

\* Variant: a failed save fails the analysis.
AfterSaveFailing(o) == IF o = "ok" THEN "lockR" ELSE "lockE"

\* handlers.go:229-236  "Don't fail the analysis if DB save fails": the
\* goroutine goes on to record the result whatever SaveAnalysis returned
AfterSave(o) == "lockR"

\* handlers.go:228-233  a failed save is logged and ignored
Save(j) ==
    /\ tpc[j] = "save"
    /\ \E o \in Outcomes(j, 3, {"ok", "error"}) :
          /\ calls' = [calls EXCEPT ![j] = Append(@, <<"store", o>>)]
          /\ store' = IF o = "ok" THEN SaveAnalysis(store, tres[ResultVar(j)], now) ELSE store
          /\ tpc' = [tpc EXCEPT ![j] = AfterSave(o)]
    /\ UNCHANGED <<webhook, hpc, spawned, wg, mu, results, errors, response, status,
                   terr, tres, now,
                   run, flipped, replay, first, expired, tbuf, pvars, avars, tvars, svars>>

\* Variant: a lock that never blocks.
CanLockAlways(m) == TRUE

\* handlers.go:190,217,236  mu.Lock() returns only while no task holds mu
CanLock(m) == m = 0

\* handlers.go:190-191, 217-218, 236-237  mu.Lock() and the load of the slice
\* that the append which follows it starts with
Lock(j) ==
    /\ tpc[j] \in {"lockE", "lockR"}
    /\ CanLock(mu)
    /\ mu' = j
    /\ tbuf' = [tbuf EXCEPT ![j] = IF tpc[j] = "lockE" THEN errors ELSE results]
    /\ tpc' = [tpc EXCEPT ![j] = IF tpc[j] = "lockE" THEN "appendE" ELSE "appendR"]
    /\ UNCHANGED <<webhook, hpc, spawned, wg, results, errors, response, status,
                   terr, tres, calls, store, now,
                   run, flipped, replay, first, expired, pvars, avars, tvars, svars>>

\* handlers.go:191-195, 218-222  the store that ends errors = append(errors, ...)
AppendError(j) ==
    /\ tpc[j] = "appendE"
    /\ errors' = Append(tbuf[j], ErrorEntry(j, TaskAlert(j), terr[j]))
    /\ tbuf' = [tbuf EXCEPT ![j] = <<>>]
    /\ tpc' = [tpc EXCEPT ![j] = "unlockE"]
    /\ UNCHANGED <<webhook, hpc, spawned, wg, mu, results, response, status,
                   terr, tres, calls, store, now,
                   run, flipped, replay, first, expired, pvars, avars, tvars, svars>>

\* handlers.go:237-246  the store that ends results = append(results, ...)
AppendResult(j) ==
    /\ tpc[j] = "appendR"
    /\ results' = Append(tbuf[j], ResultEntry(j, TaskAlert(j), tres[ResultVar(j)]))
    /\ tbuf' = [tbuf EXCEPT ![j] = <<>>]
    /\ tpc' = [tpc EXCEPT ![j] = "unlockR"]
    /\ UNCHANGED <<webhook, hpc, spawned, wg, mu, errors, response, status,
                   terr, tres, calls, store, now,
                   run, flipped, replay, first, expired, pvars, avars, tvars, svars>>

\* handlers.go:196-197, 223-224, 247  mu.Unlock() and what follows it
Unlock(j) ==
    /\ tpc[j] \in {"unlockE", "unlockR"}
    /\ mu' = 0
    /\ tpc' = [tpc EXCEPT ![j] = IF tpc[j] = "unlockE" THEN AfterErrorUnlock ELSE "exit"]
    /\ UNCHANGED <<webhook, hpc, spawned, wg, results, errors, response, status,
                   terr, tres, calls, store, now,
                   run, flipped, replay, first, expired, tbuf, pvars, avars, tvars, svars>>

\* handlers.go:176  defer wg.Done()
Done(j) ==
    /\ tpc[j] = "exit"
    /\ wg' = wg - 1
    /\ tpc' = [tpc EXCEPT ![j] = "done"]
    /\ UNCHANGED <<webhook, hpc, spawned, mu, results, errors, response, status,
                   terr, tres, calls, store, now,
                   run, flipped, replay, first, expired, tbuf, pvars, avars, tvars, svars>>

\* handlers.go:158  the five minutes of the batch context elapse.  Only the
\* calls made with the context read it, so the expiry is taken when some
\* goroutine is about to make such a call: an earlier expiry shows as this
\* one, a later one is read by nothing.
Expire ==
    /\ hpc = "loop"
    /\ \E j \in Tasks : tpc[j] \in {"collect", "model"}
    /\ run = 1
    /\ ~ expired
    /\ expired' = TRUE
    /\ UNCHANGED <<webhook, hpc, spawned, wg, mu, results, errors, response, status,
                   tpc, terr, tres, calls, store, now,
                   run, flipped, replay, first, tbuf, pvars, avars, tvars, svars>>

NextBatch ==
    \/ Bind
    \/ Expire
    \/ Spawn
    \/ Wait
    \/ Respond
    \/ \E j \in Tasks : Validate(j)
    \/ \E j \in Tasks : Collect(j)
    \/ \E j \in Tasks : Model(j)
    \/ \E j \in Tasks : Save(j)
    \/ \E j \in Tasks : Lock(j)
    \/ \E j \in Tasks : AppendError(j)
    \/ \E j \in Tasks : AppendResult(j)
    \/ \E j \in Tasks : Unlock(j)
    \/ \E j \in Tasks : Done(j)

(***************************************************************************)
(* The repeated run: the same batch is handled again from the same initial *)
(* state, the collaborators answering as before except for the collector   *)
(* call of one alert, which succeeded in the first run and now fails.      *)
(***************************************************************************)
\* The outcome of alert j in the accumulator: one record per entry it has.
OutcomesOf(j) ==
    { [class |-> "Failure", reason |-> errors[n].Error] :
          n \in { m \in 1 .. Len(errors) : errors[m].idx = j } }
    \cup { [class |-> "Success", reason |-> ""] :
          n \in { m \in 1 .. Len(results) : results[m].idx = j } }

Rerun(i) ==
    /\ run = 1
    /\ hpc = "done"
    /\ webhook.ok
    /\ Len(calls[i]) > 0
    /\ calls[i][1] = <<"collector", "ok">>
    /\ run' = 2
    /\ flipped' = i
    /\ replay' = calls
    /\ first' = [j \in Tasks |-> OutcomesOf(j)]
    /\ hpc' = "bind"
    /\ spawned' = 0
    /\ wg' = 0
    /\ mu' = 0
    /\ results' = <<>>
    /\ errors' = <<>>
    /\ response' = NoResponse
    /\ status' = 0
    /\ tpc' = [j \in Tasks |-> "idle"]
    /\ terr' = [j \in Tasks |-> ""]
    /\ tres' = [j \in Tasks |-> NoResult]
    /\ calls' = [j \in Tasks |-> <<>>]
    /\ store' = {}
    /\ now' = 0
    /\ expired' = FALSE
    /\ tbuf' = [j \in Tasks |-> <<>>]
    /\ UNCHANGED <<webhook, pvars, avars, tvars, svars>>

\* handlers.go:144  Alertmanager delivers the batch again: the handler runs
\* anew on the same payload, the process, its clock and the store carrying
\* on.  The collaborators answer the second delivery as they did the first.
Redeliver ==
    /\ run = 1
    /\ hpc = "done"
    /\ webhook.ok
    /\ run' = 2
    /\ flipped' = 0
    /\ replay' = calls
    /\ first' = [j \in Tasks |-> OutcomesOf(j)]
    /\ hpc' = "bind"
    /\ spawned' = 0
    /\ wg' = 0
    /\ mu' = 0
    /\ results' = <<>>
    /\ errors' = <<>>
    /\ response' = NoResponse
    /\ status' = 0
    /\ tpc' = [j \in Tasks |-> "idle"]
    /\ terr' = [j \in Tasks |-> ""]
    /\ tres' = [j \in Tasks |-> NoResult]
    /\ calls' = [j \in Tasks |-> <<>>]
    /\ expired' = FALSE
    /\ tbuf' = [j \in Tasks |-> <<>>]
    /\ UNCHANGED <<webhook, store, now, pvars, avars, tvars, svars>>

vars == <<bvars, pvars, avars, tvars, svars>>

Init == InitBatch

Next == NextBatch

Spec == Init /\ [][Next]_vars

\* The batches of the repeated run hold alerts that pass the validation and
\* alerts that do not.
InitIso ==
    /\ InitBatch
    /\ webhook.ok
    /\ \A n \in 1 .. Len(webhook.Alerts) :
          "namespace" \in DOMAIN webhook.Alerts[n].Labels
          /\ webhook.Alerts[n].Labels["namespace"] = "prod"

NextIso == NextBatch \/ \E i \in Tasks : Rerun(i)

SpecIso == InitIso /\ [][NextIso]_vars

\* The batches delivered twice hold one alert.
InitRedeliver ==
    /\ InitBatch
    /\ webhook.ok
    /\ Len(webhook.Alerts) = 1

NextRedeliver == NextBatch \/ Redeliver

SpecRedeliver == InitRedeliver /\ [][NextRedeliver]_vars

(***************************************************************************)
(* Properties of the batch handler.                                        *)
(***************************************************************************)
Responded == hpc = "done" /\ webhook.ok

\* Number of entries of the sequence es that belong to alert j.
EntriesOf(es, j) == Cardinality({ n \in 1 .. Len(es) : es[n].idx = j })

\* The bag of the Fingerprint fields of a sequence of records.
RECURSIVE FingerprintBag(_)
FingerprintBag(es) ==
    IF es = <<>> THEN EmptyBag
    ELSE FingerprintBag(Tail(es)) (+) SetToBag({Head(es).Fingerprint})

LacksLabels(a) ==
    \/ {"namespace", "kubernetes_namespace"} \cap DOMAIN a.Labels = {}
    \/ {"pod", "pod_name"} \cap DOMAIN a.Labels = {}

\* C1: in the response of every batch, Received is the number of alerts of
\* the webhook, Analyzed the number of Results, Failed the number of Errors,
\* and Analyzed + Failed = Received.
C1_BatchCounts ==
    Responded =>
        /\ response.Received = Len(webhook.Alerts)
        /\ response.Analyzed = Len(response.Results)
        /\ response.Failed = Len(response.Errors)
        /\ response.Analyzed + response.Failed = response.Received

C1_Witness ==
    /\ Responded
    /\ response.Received = 2
    /\ response.Analyzed = 1
    /\ response.Failed = 1

\* C2: in the response every alert has exactly one entry, in Results or in
\* Errors, and the bag of the fingerprints of the entries is the bag of the
\* fingerprints of the alerts.
C2_EveryAlertOnce ==
    Responded =>
        /\ \A j \in Tasks :
              EntriesOf(response.Results, j) + EntriesOf(response.Errors, j) = 1
        /\ FingerprintBag(response.Results) (+) FingerprintBag(response.Errors)
              = FingerprintBag(webhook.Alerts)

C2_Witness ==
    /\ Responded
    /\ Len(response.Results) = 1
    /\ Len(response.Errors) = 1
    /\ response.Results[1].Fingerprint # response.Errors[1].Fingerprint
    /\ response.Results[1].idx = 2

\* C3: when the batch is run again with the collector call of one alert
\* made to fail and every other call answered as before, every other alert
\* ends with the classification and the failure reason it had in the first run.
C3_Isolation ==
    run = 2 /\ Responded =>
        \A j \in Tasks \ {flipped} : OutcomesOf(j) = first[j]

C3_Witness ==
    /\ run = 2
    /\ Responded
    /\ first[flipped] = {[class |-> "Success", reason |-> ""]}
    /\ \E j \in Tasks \ {flipped} :
          OutcomesOf(j) = {[class |-> "Success", reason |-> ""]}
    /\ \E r \in OutcomesOf(flipped) : r.class = "Failure"

\* C4: the response is built only after every task has finished and holds
\* the accumulator as it stays from then on: while the handler reads the
\* accumulator or has read it, no task is running, and the accumulator is
\* what the response holds.
C4_CompletionBarrier ==
    /\ (hpc \in {"respond", "done"} /\ webhook.ok =>
            /\ \A j \in Tasks : tpc[j] = "done"
            /\ mu = 0)
    /\ (response # NoResponse =>
            response.Results = results /\ response.Errors = errors)

C4_Witness ==
    /\ hpc = "respond"
    /\ Len(results) = 1
    /\ Len(errors) = 1

\* C5: an alert whose labels give no namespace or no pod ends in Errors with
\* the reason "missing namespace or pod in alert labels", its fingerprint and
\* its alert name, and neither the collector nor the model is called for it.
C5_MissingLabels ==
    \A j \in Tasks :
        LacksLabels(webhook.Alerts[j]) =>
            /\ calls[j] = <<>>
            /\ Responded =>
                  /\ EntriesOf(response.Results, j) = 0
                  /\ \E n \in 1 .. Len(response.Errors) :
                        response.Errors[n] =
                            [idx |-> j,
                             Fingerprint |-> webhook.Alerts[j].Fingerprint,
                             AlertName |-> GetAlertName(webhook.Alerts[j]),
                             Error |-> "missing namespace or pod in alert labels"]

C5_Witness ==
    /\ Responded
    /\ Len(webhook.Alerts) = 2
    /\ "namespace" \in DOMAIN webhook.Alerts[2].Labels
    /\ {"pod", "pod_name"} \cap DOMAIN webhook.Alerts[2].Labels = {}
    /\ response.Analyzed = 1
    /\ response.Errors[1].idx = 2

MaxTextLen == 5

Q == "\""
BS == "\\"
NL == "\n"

\* agent.go:334  strings.Index(text, "{"): 0-based, -1 when there is none
RECURSIVE IndexFrom(_, _, _)
IndexFrom(s, c, n) ==
    IF n >= Len(s) THEN -1
    ELSE IF s[n + 1] = c THEN n
    ELSE IndexFrom(s, c, n + 1)

Index(s, c) == IndexFrom(s, c, 0)

\* Variant: a default object instead of the empty string.
NoJSONEmptyObject == <<"{", "}">>

\* agent.go:336, 376  return ""
NoJSON == <<>>

\* Variant: braces are counted inside strings too.
ScanCharCountsInStrings(st, char) ==
    IF st.escaped THEN [st EXCEPT !.escaped = FALSE]
    ELSE IF char = BS THEN [st EXCEPT !.escaped = TRUE]
    ELSE IF char = Q THEN [st EXCEPT !.inString = ~ st.inString]
    ELSE IF char = "{" THEN [st EXCEPT !.braceCount = @ + 1]
    ELSE IF char = "}"
         THEN [st EXCEPT !.braceCount = @ - 1, !.ret = (st.braceCount - 1 = 0)]
    ELSE st

\* agent.go:345-373  one iteration of the scan loop on the flags and the
\* counter; ret says that the loop returns at this character.
ScanChar(st, char) ==
    IF st.escaped THEN [st EXCEPT !.escaped = FALSE]
    ELSE IF char = BS THEN [st EXCEPT !.escaped = TRUE]
    ELSE IF char = Q THEN [st EXCEPT !.inString = ~ st.inString]
    ELSE IF st.inString THEN st
    ELSE IF char = "{" THEN [st EXCEPT !.braceCount = @ + 1]
    ELSE IF char = "}"
         THEN [st EXCEPT !.braceCount = @ - 1, !.ret = (st.braceCount - 1 = 0)]
    ELSE st

\* agent.go:334-342
ExtractStart ==
    /\ ppc = "extract"
    /\ LET startIdx == Index(text, "{")
       IN IF startIdx = -1
          THEN /\ jsonStr' = NoJSON
               /\ ppc' = "decode"
               /\ sc' = [sc EXCEPT !.startIdx = startIdx]
          ELSE /\ sc' = [startIdx |-> startIdx, i |-> startIdx, braceCount |-> 0,
                         inString |-> FALSE, escaped |-> FALSE]
               /\ ppc' = "scan"
               /\ jsonStr' = jsonStr
    /\ UNCHANGED <<text, analysis, result, clock, prev, bvars, avars, tvars, svars>>

\* agent.go:344-374
ScanStep ==
    /\ ppc = "scan"
    /\ sc.i < Len(text)
    /\ LET st == ScanChar([braceCount |-> sc.braceCount, inString |-> sc.inString,
                           escaped |-> sc.escaped, ret |-> FALSE], text[sc.i + 1])
       IN IF st.ret
          THEN /\ jsonStr' = SubSeq(text, sc.startIdx + 1, sc.i + 1)
               /\ ppc' = "decode"
               /\ sc' = [sc EXCEPT !.braceCount = st.braceCount]
          ELSE /\ sc' = [sc EXCEPT !.i = @ + 1, !.braceCount = st.braceCount,
                                   !.inString = st.inString, !.escaped = st.escaped]
               /\ UNCHANGED <<jsonStr, ppc>>
    /\ UNCHANGED <<text, analysis, result, clock, prev, bvars, avars, tvars, svars>>

\* agent.go:344, 376  the loop ends without a return
ScanExhausted ==
    /\ ppc = "scan"
    /\ sc.i >= Len(text)
    /\ jsonStr' = NoJSON
    /\ ppc' = "decode"
    /\ UNCHANGED <<text, sc, analysis, result, clock, prev, bvars, avars, tvars, svars>>

(***************************************************************************)
(* json.Unmarshal(jsonStr, &response), agent.go:238-268: the syntax of     *)
(* encoding/json first, then the decoding into the response struct.        *)
(***************************************************************************)
JVal(type, str, items) == [t |-> type, s |-> str, items |-> items]

ParseFail == [ok |-> FALSE, v |-> JVal("null", <<>>, <<>>), pos |-> 0]

ParseOK(v, pos) == [ok |-> TRUE, v |-> v, pos |-> pos]

RECURSIVE SkipWS(_, _)
SkipWS(s, p) == IF p <= Len(s) /\ s[p] \in {" ", NL} THEN SkipWS(s, p + 1) ELSE p

RECURSIVE SkipDigits(_, _)
SkipDigits(s, p) == IF p <= Len(s) /\ s[p] = "1" THEN SkipDigits(s, p + 1) ELSE p

\* A string literal, p being the position after its opening quote.
RECURSIVE ParseString(_, _, _)
ParseString(s, p, acc) ==
    IF p > Len(s) THEN ParseFail
    ELSE IF s[p] = Q THEN ParseOK(JVal("string", acc, <<>>), p + 1)
    ELSE IF s[p] = BS
         THEN IF p + 1 > Len(s) THEN ParseFail
              ELSE IF s[p + 1] \in {Q, BS, "/"}
                   THEN ParseString(s, p + 2, Append(acc, s[p + 1]))
              ELSE IF s[p + 1] = "n" THEN ParseString(s, p + 2, Append(acc, NL))
              ELSE ParseFail
    ELSE IF s[p] = NL THEN ParseFail
    ELSE ParseString(s, p + 1, Append(acc, s[p]))

RECURSIVE ParseValue(_, _), ParseElements(_, _, _), ParseMembers(_, _, _)
ParseValue(s, p0) ==
    LET p == SkipWS(s, p0)
    IN IF p > Len(s) THEN ParseFail
       ELSE CASE s[p] = "{" ->
                    LET q == SkipWS(s, p + 1)
                    IN IF q <= Len(s) /\ s[q] = "}"
                       THEN ParseOK(JVal("object", <<>>, <<>>), q + 1)
                       ELSE ParseMembers(s, q, <<>>)
              [] s[p] = "[" ->
                    LET q == SkipWS(s, p + 1)
                    IN IF q <= Len(s) /\ s[q] = "]"
                       THEN ParseOK(JVal("array", <<>>, <<>>), q + 1)
                       ELSE ParseElements(s, q, <<>>)
              [] s[p] = Q -> ParseString(s, p + 1, <<>>)
              [] s[p] = "null" -> ParseOK(JVal("null", <<>>, <<>>), p + 1)
              [] s[p] \in {"true", "false"} -> ParseOK(JVal("bool", <<>>, <<>>), p + 1)
              [] s[p] = "1" -> ParseOK(JVal("number", <<>>, <<>>), SkipDigits(s, p))
              [] OTHER -> ParseFail

ParseElements(s, p, acc) ==
    LET r == ParseValue(s, p)
        q == SkipWS(s, r.pos)
    IN IF ~ r.ok \/ q > Len(s) THEN ParseFail
       ELSE IF s[q] = "," THEN ParseElements(s, q + 1, Append(acc, r.v))
       ELSE IF s[q] = "]" THEN ParseOK(JVal("array", <<>>, Append(acc, r.v)), q + 1)
       ELSE ParseFail

ParseMembers(s, p, acc) ==
    LET p1 == SkipWS(s, p)
    IN IF p1 > Len(s) \/ s[p1] # Q THEN ParseFail
       ELSE LET k == ParseString(s, p1 + 1, <<>>)
                c == SkipWS(s, k.pos)
            IN IF ~ k.ok \/ c > Len(s) \/ s[c] # ":" THEN ParseFail
               ELSE LET r == ParseValue(s, c + 1)
                        q == SkipWS(s, r.pos)
                        m == [k |-> k.v.s, v |-> r.v]
                    IN IF ~ r.ok \/ q > Len(s) THEN ParseFail
                       ELSE IF s[q] = "," THEN ParseMembers(s, q + 1, Append(acc, m))
                       ELSE IF s[q] = "}"
                            THEN ParseOK(JVal("object", <<>>, Append(acc, m)), q + 1)
                       ELSE ParseFail

\* The whole input is one JSON value.
ParseJSON(s) ==
    LET r == ParseValue(s, 1)
    IN IF r.ok /\ SkipWS(s, r.pos) = Len(s) + 1 THEN r ELSE ParseFail

\* Go types of the response struct, agent.go:238-266.
StringT == [kind |-> "string"]
SliceT(elem) == [kind |-> "slice", elem |-> elem]
StructT(fields) == [kind |-> "struct", fields |-> fields]

NilSlice == [isNil |-> TRUE, elems |-> <<>>]
MakeSlice(elems) == [isNil |-> FALSE, elems |-> elems]

TimelineT ==
    StructT([timestamp |-> StringT, event |-> StringT, details |-> StringT])
LogT ==
    StructT([timestamp |-> StringT, line |-> StringT, container |-> StringT])
EventT ==
    StructT([type |-> StringT, reason |-> StringT, message |-> StringT,
             timestamp |-> StringT])
RecommendationT ==
    StructT([priority |-> StringT, action |-> StringT, details |-> StringT,
             command |-> StringT])
ResponseT ==
    StructT([root_cause |-> StringT, confidence |-> StringT, reasoning |-> StringT,
             timeline |-> SliceT(TimelineT),
             evidence |-> StructT([logs |-> SliceT(LogT), events |-> SliceT(EventT)]),
             recommendations |-> SliceT(RecommendationT)])

RECURSIVE Zero(_)
Zero(ty) ==
    CASE ty.kind = "string" -> <<>>
      [] ty.kind = "slice" -> NilSlice
      [] OTHER -> [f \in DOMAIN ty.fields |-> Zero(ty.fields[f])]

\* Decoding of a JSON value into a Go value of type ty that holds cur:
\* null leaves the value as it is, a value of another JSON type is an
\* UnmarshalTypeError, unknown keys are skipped.
RECURSIVE Decode(_, _, _), DecodeMembers(_, _, _, _), DecodeItems(_, _, _, _)
Decode(ty, v, cur) ==
    IF v.t = "null" THEN [err |-> FALSE, val |-> cur]
    ELSE CASE ty.kind = "string" ->
                 IF v.t = "string" THEN [err |-> FALSE, val |-> v.s]
                 ELSE [err |-> TRUE, val |-> cur]
           [] ty.kind = "slice" ->
                 IF v.t = "array" THEN DecodeItems(ty.elem, v.items, <<>>, FALSE)
                 ELSE [err |-> TRUE, val |-> cur]
           [] OTHER ->
                 IF v.t = "object" THEN DecodeMembers(ty, v.items, cur, FALSE)
                 ELSE [err |-> TRUE, val |-> cur]

DecodeMembers(ty, ms, cur, err) ==
    IF ms = <<>> THEN [err |-> err, val |-> cur]
    ELSE LET m == Head(ms)
             known == { f \in DOMAIN ty.fields : m.k = <<f>> }
         IN IF known = {} THEN DecodeMembers(ty, Tail(ms), cur, err)
            ELSE LET f == CHOOSE x \in known : TRUE
                     d == Decode(ty.fields[f], m.v, cur[f])
                 IN DecodeMembers(ty, Tail(ms), [cur EXCEPT ![f] = d.val],
                                  err \/ d.err)

DecodeItems(ty, items, acc, err) ==
    IF items = <<>> THEN [err |-> err, val |-> MakeSlice(acc)]
    ELSE LET d == Decode(ty, Head(items), Zero(ty))
         IN DecodeItems(ty, Tail(items), Append(acc, d.val), err \/ d.err)

\* agent.go:268  err != nil for a syntax error and for a type error alike
Unmarshal(s) ==
    LET r == ParseJSON(s)
        d == Decode(ResponseT, r.v, Zero(ResponseT))
    IN IF ~ r.ok THEN [err |-> TRUE, val |-> Zero(ResponseT)] ELSE d

(***************************************************************************)
(* parseTimestamp, agent.go:379-397.  A timestamp string is made of a      *)
(* date, a separator, a time of day, a fraction of a second and a zone;    *)
(* a layout accepts the strings of its shape, and, as time.Parse does, a   *)
(* fraction after the seconds whether or not the layout shows one.         *)
(***************************************************************************)
Dates == {"2024-01-01"}
TimesOfDay == {"15:04:05", "10:00:00"}
Fractions == {".5"}
Zones == {"Z", "+02:00"}

Shape(ts) ==
    [n \in 1 .. Len(ts) |->
        CASE ts[n] \in Dates -> "date"
          [] ts[n] \in TimesOfDay -> "time"
          [] ts[n] \in Fractions -> "frac"
          [] ts[n] \in Zones -> "zone"
          [] ts[n] \in {"T", " "} -> ts[n]
          [] OTHER -> "other"]

\* The shape of a layout, without the optional fraction.
LayoutShape(layout) ==
    CASE layout \in {"RFC3339", "RFC3339Nano"} -> <<"date", "T", "time", "zone">>
      [] layout = "2006-01-02T15:04:05" -> <<"date", "T", "time">>
      [] layout = "2006-01-02 15:04:05" -> <<"date", " ", "time">>
      [] OTHER -> <<"time">>

WithoutFraction(ts) ==
    LET fr == { n \in 1 .. Len(ts) : ts[n] \in Fractions /\ n > 1 /\ ts[n - 1] \in TimesOfDay }
    IN IF fr = {} THEN ts
       ELSE LET n == CHOOSE x \in fr : TRUE
            IN SubSeq(ts, 1, n - 1) \o SubSeq(ts, n + 1, Len(ts))

Field(ts, class, default) ==
    LET at == { n \in 1 .. Len(ts) : Shape(ts)[n] = class }
    IN IF at = {} THEN default ELSE ts[CHOOSE n \in at : TRUE]

\* Variant: a layout without a date takes the date of the day of the call.
TimeParseFillsToday(layout, ts) ==
    IF Shape(WithoutFraction(ts)) = LayoutShape(layout)
    THEN [ok |-> TRUE,
          t |-> [date |-> Field(ts, "date", IF clock = 0 THEN "today" ELSE "tomorrow"),
                 time |-> Field(ts, "time", ""),
                 frac |-> Field(ts, "frac", ""), zone |-> Field(ts, "zone", "Z"),
                 wall |-> -1]]
    ELSE [ok |-> FALSE, t |-> [date |-> "", time |-> "", frac |-> "", zone |-> "",
                               wall |-> -1]]

\* time.Parse(layout, ts)
TimeParse(layout, ts) ==
    IF Shape(WithoutFraction(ts)) = LayoutShape(layout)
    THEN [ok |-> TRUE,
          t |-> [date |-> Field(ts, "date", "0000-01-01"), time |-> Field(ts, "time", ""),
                 frac |-> Field(ts, "frac", ""), zone |-> Field(ts, "zone", "Z"),
                 wall |-> -1]]
    ELSE [ok |-> FALSE, t |-> [date |-> "", time |-> "", frac |-> "", zone |-> "",
                               wall |-> -1]]

\* Variant: the zero time instead of the current time.
TimeZero(t) == [date |-> "0001-01-01", time |-> "00:00:00", frac |-> "", zone |-> "Z",
                wall |-> -1]

\* time.Now()
TimeNow(t) == [date |-> "", time |-> "", frac |-> "", zone |-> "", wall |-> t]

\* Variant: the list ends with the space-separated layout.
formatsWithoutTimeOfDay ==
    <<"RFC3339", "RFC3339Nano", "2006-01-02T15:04:05", "2006-01-02 15:04:05">>

\* agent.go:381-387
formats ==
    <<"RFC3339", "RFC3339Nano", "2006-01-02T15:04:05", "2006-01-02 15:04:05", "15:04:05">>

\* agent.go:389-396  the first layout that parses, else the current time
RECURSIVE parseTimestampFrom(_, _, _)
parseTimestampFrom(n, ts, t) ==
    IF n > Len(formats) THEN TimeNow(t)
    ELSE IF TimeParse(formats[n], ts).ok THEN TimeParse(formats[n], ts).t
    ELSE parseTimestampFrom(n + 1, ts, t)

parseTimestamp(ts, t) == parseTimestampFrom(1, ts, t)

(***************************************************************************)
(* extractAndParseJSON after extractJSON has returned, agent.go:230-330,   *)
(* and parseAnalysisResponse, agent.go:197-225.  A Go string is the        *)
(* sequence of its characters, "" the empty sequence.                      *)
(***************************************************************************)
\* agent.go:232-234, 273-275  models.Analysis{Reasoning: text}
RawTextAnalysis(t) ==
    [RootCause |-> <<>>, Confidence |-> <<>>, Reasoning |-> t,
     Timeline |-> NilSlice,
     Evidence |-> [Logs |-> NilSlice, Events |-> NilSlice],
     Recommendations |-> NilSlice]

\* Variant: an entry without timestamp is left out.
ConvertAnalysisSkipsUndated(r, t) ==
    LET Dated(e) == e.timestamp # <<>>
        tl == SelectSeq(r.timeline.elems, Dated)
        ev == SelectSeq(r.evidence.events.elems, Dated)
    IN
    [RootCause |-> r.root_cause, Confidence |-> r.confidence, Reasoning |-> r.reasoning,
     Timeline |-> MakeSlice(
        [n \in 1 .. Len(tl) |->
            [Timestamp |-> parseTimestamp(tl[n].timestamp, t),
             Event |-> tl[n].event,
             Details |-> tl[n].details]]),
     Evidence |->
        [Logs |-> MakeSlice(
            [n \in 1 .. Len(r.evidence.logs.elems) |->
                [Timestamp |-> parseTimestamp(r.evidence.logs.elems[n].timestamp, t),
                 Line |-> r.evidence.logs.elems[n].line,
                 Container |-> r.evidence.logs.elems[n].container]]),
         Events |-> MakeSlice(
            [n \in 1 .. Len(ev) |->
                [Type |-> ev[n].type,
                 Reason |-> ev[n].reason,
                 Message |-> ev[n].message,
                 Timestamp |-> parseTimestamp(ev[n].timestamp, t)]])],
     Recommendations |-> MakeSlice(
        [n \in 1 .. Len(r.recommendations.elems) |->
            [Priority |-> r.recommendations.elems[n].priority,
             Action |-> r.recommendations.elems[n].action,
             Details |-> r.recommendations.elems[n].details,
             Command |-> r.recommendations.elems[n].command]])]

\* agent.go:278-329
ConvertAnalysis(r, t) ==
    [RootCause |-> r.root_cause, Confidence |-> r.confidence, Reasoning |-> r.reasoning,
     Timeline |-> MakeSlice(
        [n \in 1 .. Len(r.timeline.elems) |->
            [Timestamp |-> parseTimestamp(r.timeline.elems[n].timestamp, t),
             Event |-> r.timeline.elems[n].event,
             Details |-> r.timeline.elems[n].details]]),
     Evidence |->
        [Logs |-> MakeSlice(
            [n \in 1 .. Len(r.evidence.logs.elems) |->
                [Timestamp |-> parseTimestamp(r.evidence.logs.elems[n].timestamp, t),
                 Line |-> r.evidence.logs.elems[n].line,
                 Container |-> r.evidence.logs.elems[n].container]]),
         Events |-> MakeSlice(
            [n \in 1 .. Len(r.evidence.events.elems) |->
                [Type |-> r.evidence.events.elems[n].type,
                 Reason |-> r.evidence.events.elems[n].reason,
                 Message |-> r.evidence.events.elems[n].message,
                 Timestamp |-> parseTimestamp(r.evidence.events.elems[n].timestamp, t)]])],
     Recommendations |-> MakeSlice(
        [n \in 1 .. Len(r.recommendations.elems) |->
            [Priority |-> r.recommendations.elems[n].priority,
             Action |-> r.recommendations.elems[n].action,
             Details |-> r.recommendations.elems[n].details,
             Command |-> r.recommendations.elems[n].command]])]

\* Variant: the error of the decoder is ignored and what did decode is kept.
extractAndParseJSONSalvaging(t, js, at) ==
    IF js = <<>> THEN RawTextAnalysis(t)
    ELSE ConvertAnalysis(Unmarshal(js).val, at)

\* agent.go:227-330  with jsonStr the value extractJSON returned
extractAndParseJSON(t, js, at) ==
    IF js = <<>> THEN RawTextAnalysis(t)
    ELSE IF Unmarshal(js).err THEN RawTextAnalysis(t)
    ELSE ConvertAnalysis(Unmarshal(js).val, at)

\* Variant: || in place of &&.
ParsingFailedEither(a) == a.RootCause = <<>> \/ a.Reasoning = <<>>

\* agent.go:218  the test of "parsing failed"
ParsingFailed(a) == a.RootCause = <<>> /\ a.Reasoning = <<>>

\* agent.go:201-222
BuildResult(req, t, a, at) ==
    [Alert |-> [Name |-> "PodIncident", Namespace |-> req.Namespace,
                Pod |-> req.PodName, StartedAt |-> at - req.Lookback],
     Analysis |-> IF ParsingFailed(a)
                  THEN [a EXCEPT !.Reasoning = t,
                                 !.RootCause = <<"Unable to parse LLM response">>,
                                 !.Confidence = <<"unknown">>]
                  ELSE a]

\* The request of the analysis whose reply is normalised.
ParseReq == [AlertFingerprint |-> "fp1", Namespace |-> "prod", PodName |-> "api",
             Lookback |-> Lookback]

\* agent.go:199
DecodeJSON ==
    /\ ppc = "decode"
    /\ analysis' = extractAndParseJSON(text, jsonStr, clock)
    /\ ppc' = "build"
    /\ UNCHANGED <<text, sc, jsonStr, result, clock, prev, bvars, avars, tvars, svars>>

\* agent.go:201-224
Build ==
    /\ ppc = "build"
    /\ result' = BuildResult(ParseReq, text, analysis, clock)
    /\ ppc' = "done"
    /\ UNCHANGED <<text, sc, jsonStr, analysis, clock, prev, bvars, avars, tvars, svars>>

\* Time passes between the clock readings.
Tick ==
    /\ ppc \in {"decode", "build"}
    /\ clock < MaxClock
    /\ clock' = clock + 1
    /\ UNCHANGED <<text, ppc, sc, jsonStr, analysis, result, prev, bvars, avars, tvars, svars>>

\* The same reply is normalised once more, later or at the same moment.
Renormalise ==
    /\ ppc = "done"
    /\ prev = NoResult
    /\ prev' = result
    /\ ppc' = "extract"
    /\ sc' = NoScan
    /\ jsonStr' = NotExtracted
    /\ analysis' = NoAnalysis
    /\ result' = NoResult
    /\ UNCHANGED <<text, clock, bvars, avars, tvars, svars>>

(***************************************************************************)
(* The replies the normaliser is run on: every short text over the         *)
(* characters the scanner tells apart, and replies made of prose, an       *)
(* object and more prose.                                                  *)
(***************************************************************************)
ScanAlphabet == {"{", "}", Q, BS, "a"}

ShortTexts == SeqsUpTo(ScanAlphabet, MaxTextLen)

Str(w) == <<Q, w, Q>>
KV(k, v) == Str(k) \o <<":">> \o v
Obj(body) == <<"{">> \o body \o <<"}">>
Arr(body) == <<"[">> \o body \o <<"]">>
Comma == <<",">>

\* The reply of scenario A, without its prose.
ObjScenarioA ==
    Obj(KV("root_cause", Str("OOM")) \o Comma \o KV("confidence", Str("high")) \o Comma
        \o KV("reasoning", Str("r")) \o Comma \o KV("timeline", Arr(<<>>)) \o Comma
        \o KV("evidence", Obj(KV("logs", Arr(<<>>)) \o Comma \o KV("events", Arr(<<>>))))
        \o Comma \o KV("recommendations", Arr(<<>>)))

\* Every field filled, an unknown field, a confidence outside the closed set,
\* braces, an escaped quote and an escaped backslash inside a string.
ObjFull ==
    Obj(KV("root_cause", <<Q, "a", "}", BS, Q, BS, BS, "{", Q>>) \o Comma
        \o KV("confidence", Str("certain")) \o Comma
        \o KV("extra", <<"1">>) \o Comma
        \o KV("timeline",
              Arr(Obj(KV("timestamp", Str("15:04:05")) \o Comma \o KV("event", Str("e")))
                  \o Comma
                  \o Obj(KV("timestamp", Str("yesterday")) \o Comma
                         \o KV("details", Str("d"))))) \o Comma
        \o KV("evidence",
              Obj(KV("logs",
                     Arr(Obj(KV("timestamp", <<Q, "2024-01-01", "T", "10:00:00", "Z", Q>>)
                             \o Comma \o KV("line", Str("l"))))) \o Comma
                  \o KV("events",
                        Arr(Obj(KV("type", Str("Warning")) \o Comma
                                \o KV("reason", Str("BackOff")))))))
        \o Comma
        \o KV("recommendations",
              Arr(Obj(KV("priority", Str("high")) \o Comma \o KV("action", Str("restart"))))))

ObjEmpty == Obj(<<>>)
ObjConfidenceOnly == Obj(KV("confidence", Str("low")))
ObjBraceInString == Obj(KV("reasoning", <<Q, "a", "}", BS, Q, BS, BS, "{", Q>>))
\* well-formed, with a field of the wrong type
ObjWrongType == Obj(KV("root_cause", <<"1">>) \o Comma \o KV("reasoning", Str("why")))

WellFormedObjects ==
    {ObjScenarioA, ObjFull, ObjEmpty, ObjConfidenceOnly, ObjBraceInString, ObjWrongType}

\* balanced but not JSON, and cut before its end
Malformed ==
    { Obj(KV("root_cause", Str("OOM")) \o Comma),
      SubSeq(ObjScenarioA, 1, Len(ObjScenarioA) - 1) }

Prefixes ==
    { <<>>,
      <<"I think the issue is memory.", NL>>,
      <<"see", "{", "x", "}", " ">>,
      <<"}", " ", "then", " ">>,
      <<"{", " ">>,
      <<"path", "{", "C:", BS, "}", " ">>,
      <<"he said", Q, "hi", Q, " ">> }

Suffixes == { <<>>, <<" ", "done", "}">>, <<NL, "{", "more">> }

Replies ==
    ShortTexts
    \cup { pre \o body \o suf :
              pre \in Prefixes, body \in WellFormedObjects \cup Malformed, suf \in Suffixes }
    \cup { <<"No JSON here at all.">> }

InitParse ==
    /\ text \in Replies
    /\ ppc = "extract"
    /\ sc = NoScan
    /\ jsonStr = NotExtracted
    /\ analysis = NoAnalysis
    /\ result = NoResult
    /\ clock = 0
    /\ prev = NoResult
    /\ AnalyzerIdle
    /\ StoreIdle
    /\ webhook = [ok |-> FALSE, Alerts |-> <<>>]
    /\ hpc = "off"
    /\ spawned = 0
    /\ wg = 0
    /\ mu = 0
    /\ results = <<>>
    /\ errors = <<>>
    /\ response = NoResponse
    /\ status = 0
    /\ tpc = <<>>
    /\ terr = <<>>
    /\ tres = <<>>
    /\ calls = <<>>
    /\ store = {}
    /\ now = 0
    /\ run = 1
    /\ flipped = 0
    /\ replay = <<>>
    /\ first = <<>>
    /\ expired = FALSE
    /\ tbuf = [j \in DOMAIN tpc |-> <<>>]

NextParse ==
    \/ ExtractStart
    \/ ScanStep
    \/ ScanExhausted
    \/ DecodeJSON
    \/ Build
    \/ Tick
    \/ Renormalise

SpecParse == InitParse /\ [][NextParse]_vars

(***************************************************************************)
(* Properties of the normaliser.                                           *)
(***************************************************************************)
Extracted == ppc \in {"decode", "build", "done"}

\* Positions of the character c in s.
Positions(s, c) == { n \in 1 .. Len(s) : s[n] = c }

\* s is prose around a well-formed JSON object.
ContainsObject(s) ==
    \E a \in Positions(s, "{"), b \in Positions(s, "}") :
        a < b /\ ParseJSON(SubSeq(s, a, b)).ok

\* The closing brace that matches the brace opened before position n, when
\* string literals are honoured: a quote opens and closes a string, a
\* backslash inside a string takes the next character with it, braces inside
\* a string do not count.  0 when there is none.
RECURSIVE MatchFrom(_, _, _, _, _)
MatchFrom(s, n, depth, inStr, esc) ==
    IF n > Len(s) THEN 0
    ELSE IF esc THEN MatchFrom(s, n + 1, depth, inStr, FALSE)
    ELSE IF inStr /\ s[n] = BS THEN MatchFrom(s, n + 1, depth, inStr, TRUE)
    ELSE IF s[n] = Q THEN MatchFrom(s, n + 1, depth, ~ inStr, FALSE)
    ELSE IF inStr THEN MatchFrom(s, n + 1, depth, inStr, FALSE)
    ELSE IF s[n] = "{" THEN MatchFrom(s, n + 1, depth + 1, inStr, FALSE)
    ELSE IF s[n] = "}"
         THEN IF depth = 1 THEN n ELSE MatchFrom(s, n + 1, depth - 1, inStr, FALSE)
    ELSE MatchFrom(s, n + 1, depth, inStr, FALSE)

\* The span from the first opening brace to the brace that matches it.
TrueSpan(s) ==
    LET opens == Positions(s, "{")
        a == CHOOSE x \in opens : \A y \in opens : x <= y
        b == MatchFrom(s, a + 1, 1, FALSE, FALSE)
    IN IF opens = {} \/ b = 0 THEN <<>> ELSE SubSeq(s, a, b)

\* C7: when no JSON object can be extracted from the reply, the report has
\* rootCause "Unable to parse LLM response", confidence "unknown", the whole
\* reply as reasoning, and its four sequences have length zero.
C7_DegradedReport ==
    ppc = "done" /\ jsonStr = <<>> =>
        /\ result.Analysis.RootCause = <<"Unable to parse LLM response">>
        /\ result.Analysis.Confidence = <<"unknown">>
        /\ result.Analysis.Reasoning = text
        /\ Len(result.Analysis.Timeline.elems) = 0
        /\ Len(result.Analysis.Evidence.Logs.elems) = 0
        /\ Len(result.Analysis.Evidence.Events.elems) = 0
        /\ Len(result.Analysis.Recommendations.elems) = 0

\* C8: the normaliser returns a report for every reply, and in every report
\* the four sequences are non-nil.
C8_SequencesNeverNil ==
    ppc = "done" =>
        /\ result # NoResult
        /\ ~ result.Analysis.Timeline.isNil
        /\ ~ result.Analysis.Evidence.Logs.isNil
        /\ ~ result.Analysis.Evidence.Events.isNil
        /\ ~ result.Analysis.Recommendations.isNil

\* C9: for a reply that is prose around a well-formed JSON object,
\* extractJSON returns the span from the first opening brace of the reply to
\* the closing brace that truly matches it, whenever that brace exists.
C9_ReturnsTrueSpan ==
    Extracted /\ ContainsObject(text) /\ TrueSpan(text) # <<>> =>
        jsonStr = TrueSpan(text)

\* C10: for a text without an opening brace extractJSON returns the empty
\* string.
C10_NoBraceNoJSON ==
    Extracted /\ Positions(text, "{") = {} => jsonStr = <<>>

C10_Witness ==
    /\ Extracted
    /\ Positions(text, "{") = {}
    /\ Positions(text, "}") # {}
    /\ Positions(text, Q) # {}
    /\ Len(text) = MaxTextLen

\* The first opening brace of s is never closed: counting braces outside
\* string literals from it, the end of s comes before the depth is zero.
NeverClosed(s) ==
    /\ Positions(s, "{") # {}
    /\ LET a == CHOOSE x \in Positions(s, "{") : \A y \in Positions(s, "{") : x <= y
       IN MatchFrom(s, a + 1, 1, FALSE, FALSE) = 0

\* C11: for a text whose first opening brace is never closed extractJSON
\* returns the empty string, not a span of the text.
C11_UnclosedNoJSON ==
    Extracted /\ NeverClosed(text) => jsonStr = <<>>

(***************************************************************************)
(* AnalyzeAlert, agent.go:57-111, for one request, and the two model       *)
(* clients.  The normaliser runs as above once the reply is handed to it.  *)
(***************************************************************************)
Providers == {"anthropic", "openai"}

\* A corev1.Event of the pod, by the fields the prompt shows; LastTimestamp
\* is a reading of the wall clock.
Event(ts) == [LastTimestamp |-> ts, Type |-> "Warning", Reason |-> "BackOff",
              Message |-> "restarting"]

\* kubernetes.go:126-135  the events of the list that are later than the
\* cutoff, in the order of the list
GetPodEvents(items, cutoff) ==
    LET After(e) == e.LastTimestamp > cutoff
    IN  SelectSeq(items, After)

\* kubernetes.go:91-113  what GetPodLogs may return: no line, a line, an error
LogFetches ==
    { [err |-> "", logs |-> ""],
      [err |-> "", logs |-> "2024-01-01T10:00:00Z started"],
      [err |-> "failed to get pod logs: forbidden", logs |-> ""] }

\* kubernetes.go:115-135  what GetPodEvents may return: no event in the
\* window, an event, an error
EventFetches ==
    { [err |-> "", events |-> <<>>],
      [err |-> "", events |-> <<Event(1)>>],
      [err |-> "failed to get events: forbidden", events |-> <<>>] }

\* Variant: a failed log fetch or event fetch fails the collection.
GetPodInfoStrict(o, lf, ef) ==
    IF o # "ok" \/ lf.err # "" \/ ef.err # ""
    THEN [pi |-> NoPodInfo, ok |-> FALSE]
    ELSE [pi |-> [Pod |-> "api", Containers |-> 1, Logs |-> lf.logs, Events |-> ef.events],
          ok |-> TRUE]

\* kubernetes.go:66-89  o is the outcome of the Get of the pod, lf and ef
\* what GetPodLogs and GetPodEvents return.  The API server admits no pod
\* without a container.
GetPodInfo(o, lf, ef) ==
    IF o # "ok"
    THEN [pi |-> NoPodInfo, ok |-> FALSE]
    ELSE [pi |-> [Pod |-> "api", Containers |-> 1,
                  Logs |-> IF lf.err # "" THEN "Error fetching logs: " \o lf.err
                           ELSE lf.logs,
                  Events |-> IF ef.err # "" THEN <<>> ELSE ef.events],
          ok |-> TRUE]

\* The replies a provider may give: those of the normaliser that are made of
\* prose and an object, the reply without JSON and the empty text.
AnalyzerReplies ==
    { pre \o body \o suf :
          pre \in Prefixes, body \in WellFormedObjects \cup Malformed, suf \in Suffixes }
    \cup { <<"No JSON here at all.">>, <<>> }

TextBlock(t) == [type |-> "text", text |-> t]
ToolUseBlock == [type |-> "tool_use", text |-> <<>>]

\* The answer of the provider's API: an error of the call, or a message
\* with its content blocks (anthropic) or choices (openai).
ProviderAnswers ==
    { [err |-> e, content |-> <<>>] : e \in {"error", "deadline"} }
    \cup { [err |-> "", content |-> c] :
              c \in {<<>>, <<ToolUseBlock>>} \cup { <<TextBlock(t)>> : t \in AnalyzerReplies } }

\* anthropic.go:37-61
AnthropicAnalyze(ans) ==
    IF ans.err # ""
    THEN [text |-> <<>>,
          err |-> IF ans.err = "deadline"
                  THEN "anthropic API call failed: context deadline exceeded"
                  ELSE "anthropic API call failed: provider error"]
    ELSE IF Len(ans.content) = 0
    THEN [text |-> <<>>, err |-> "empty response from Anthropic"]
    ELSE IF ans.content[1].type = "text"
    THEN [text |-> ans.content[1].text, err |-> ""]
    ELSE [text |-> <<>>, err |-> "unexpected response format from Anthropic"]

\* OpenAIClient.Analyze: a choice that carries no text has Content "".
OpenAIAnalyze(ans) ==
    IF ans.err # ""
    THEN [text |-> <<>>,
          err |-> IF ans.err = "deadline"
                  THEN "openai API call failed: context deadline exceeded"
                  ELSE "openai API call failed: provider error"]
    ELSE IF Len(ans.content) = 0
    THEN [text |-> <<>>, err |-> "empty response from OpenAI"]
    ELSE [text |-> ans.content[1].text, err |-> ""]

\* a.llmClient.Analyze(ctx, prompt)
ClientAnalyze(client, ans) ==
    IF client = "anthropic" THEN AnthropicAnalyze(ans) ELSE OpenAIAnalyze(ans)

\* Variant: the collection errors are logged and the analysis goes on.
CollectFailedIgnored(errs) == FALSE

\* agent.go:87  if len(errors) > 0
CollectFailed(errs) == Len(errs) > 0

\* Variant: the error comes with the result built so far.
ErrorReturnWithPartial(msg) ==
    [result |-> [Alert |-> [Name |-> "PodIncident"], Analysis |-> NoAnalysis], err |-> msg]

\* agent.go:89, 99  return nil, fmt.Errorf(...)
ErrorReturn(msg) == [result |-> NoResult, err |-> msg]

\* agent.go:110  return result, nil
ResultReturn(res) == [result |-> res, err |-> ""]

\* agent.go:178  if i >= 10
EventLimit == 10

\* agent.go:167  a.truncateLogs(podInfo.Logs, 5000)
LogBudget == 5000

\* agent.go:181-185  the line of one event
EventLine(e) ==
    "- [" \o ToString(e.LastTimestamp) \o "] " \o e.Type \o ": " \o e.Message
        \o " (reason: " \o e.Reason \o ")\n"

\* agent.go:176-186  the loop over events, i counting from 1 here
RECURSIVE formatEventsFrom(_, _, _)
formatEventsFrom(events, i, res) ==
    IF i > Len(events) \/ i - 1 >= EventLimit THEN res
    ELSE formatEventsFrom(events, i + 1, res \o EventLine(events[i]))

\* agent.go:171-188
formatEvents(events) ==
    IF Len(events) = 0 THEN "No recent events found"
    ELSE formatEventsFrom(events, 1, "")

\* agent.go:190-195
truncateLogs(logs, maxChars) ==
    IF Len(logs) <= maxChars THEN logs
    ELSE SubSeq(logs, Len(logs) - maxChars + 1, Len(logs)) \o "\n... (truncated)"

\* agent.go:113-169  the prompt, by the values it is formatted from
BuildPrompt(req, pi) ==
    [Namespace |-> req.Namespace, Pod |-> req.PodName, Lookback |-> req.Lookback,
     Logs |-> truncateLogs(pi.Logs, LogBudget), Events |-> formatEvents(pi.Events)]

Step(name, outcome) == [step |-> name, outcome |-> outcome]

\* agent.go:73-90  the collector goroutine, wg.Wait() and the test of errors
ACollect ==
    /\ apc = "collect"
    /\ \E o \in CallOutcomes, lf \in LogFetches, ef \in EventFetches :
       LET g == GetPodInfo(o, lf, ef)
           errs == IF g.ok THEN <<>> ELSE <<CollectError(o)>>
       IN /\ steps' = Append(steps, Step("collection", o))
          /\ fetched' = IF o = "ok" THEN [pod |-> o, logs |-> lf, events |-> ef]
                        ELSE [pod |-> o]
          /\ podInfo' = g.pi
          /\ IF CollectFailed(errs)
             THEN aret' = ErrorReturn(CollectError(o)) /\ apc' = "returned"
             ELSE aret' = aret /\ apc' = "prompt"
    /\ UNCHANGED <<llmClient, prompt, bvars, pvars, tvars, svars>>

\* agent.go:93  buildAnalysisPrompt dereferences podInfo.Pod and
\* podInfo.Pod.Spec.Containers[0]
APrompt ==
    /\ apc = "prompt"
    /\ steps' = Append(steps, Step("prompt",
                    IF podInfo.Pod = "nil" \/ podInfo.Containers = 0 THEN "panic" ELSE "ok"))
    /\ IF podInfo.Pod = "nil" \/ podInfo.Containers = 0
       THEN apc' = "panic" /\ prompt' = prompt
       ELSE apc' = "model" /\ prompt' = BuildPrompt(ParseReq, podInfo)
    /\ UNCHANGED <<llmClient, podInfo, fetched, aret, bvars, pvars, tvars, svars>>

\* agent.go:97-100
AModel ==
    /\ apc = "model"
    /\ \E ans \in ProviderAnswers :
       LET r == ClientAnalyze(llmClient, ans)
       IN /\ steps' = Append(steps, Step("model", IF r.err = "" THEN "ok" ELSE "error"))
          /\ IF r.err # ""
             THEN /\ aret' = ErrorReturn("LLM analysis failed: " \o r.err)
                  /\ apc' = "returned"
                  /\ text' = text
             ELSE /\ aret' = aret
                  /\ apc' = "normalise"
                  /\ text' = r.text
    /\ UNCHANGED <<llmClient, podInfo, fetched, prompt, bvars,
                   ppc, sc, jsonStr, analysis, result, clock, prev, tvars, svars>>

\* agent.go:103  the call of parseAnalysisResponse
ANormalise ==
    /\ apc = "normalise"
    /\ steps' = Append(steps, Step("normalisation", "ok"))
    /\ ppc' = "extract"
    /\ apc' = "parse"
    /\ UNCHANGED <<llmClient, podInfo, fetched, prompt, aret, bvars,
                   text, sc, jsonStr, analysis, result, clock, prev, tvars, svars>>

\* agent.go:103-110  parseAnalysisResponse has returned
AReturn ==
    /\ apc = "parse"
    /\ ppc = "done"
    /\ aret' = ResultReturn(result)
    /\ apc' = "returned"
    /\ UNCHANGED <<llmClient, podInfo, fetched, prompt, steps, bvars, pvars, tvars, svars>>

\* No webhook delivery is in progress.
HandlerIdle ==
    /\ webhook = [ok |-> FALSE, Alerts |-> <<>>]
    /\ hpc = "off"
    /\ spawned = 0
    /\ wg = 0
    /\ mu = 0
    /\ results = <<>>
    /\ errors = <<>>
    /\ response = NoResponse
    /\ status = 0
    /\ tpc = <<>>
    /\ terr = <<>>
    /\ tres = <<>>
    /\ calls = <<>>
    /\ store = {}
    /\ now = 0
    /\ run = 1
    /\ flipped = 0
    /\ replay = <<>>
    /\ first = <<>>
    /\ expired = FALSE
    /\ tbuf = [j \in DOMAIN tpc |-> <<>>]

InitAnalyze ==
    /\ HandlerIdle
    /\ StoreIdle
    /\ text = <<>>
    /\ ppc = "off"
    /\ sc = NoScan
    /\ jsonStr = NotExtracted
    /\ analysis = NoAnalysis
    /\ result = NoResult
    /\ clock = 0
    /\ prev = NoResult
    /\ llmClient \in Providers
    /\ apc = "collect"
    /\ podInfo = NoPodInfo
    /\ fetched = NoFetch
    /\ prompt = NoPrompt
    /\ aret = NoReturn
    /\ steps = <<>>
    /\ tsIn = <<>>
    /\ tsFmt = 0
    /\ tsOut = NoTime

NextAnalyze ==
    \/ ACollect
    \/ APrompt
    \/ AModel
    \/ ANormalise
    \/ AReturn
    \/ ExtractStart
    \/ ScanStep
    \/ ScanExhausted
    \/ DecodeJSON
    \/ Build
    \/ Tick

SpecAnalyze == InitAnalyze /\ [][NextAnalyze]_vars

\* The event lists hold up to MaxEvents events.
MaxEvents == 11

\* The logs run up to MaxLogOver characters past the budget of the prompt.
MaxLogOver == 2

\* A text of n copies of s.
RECURSIVE Rep(_, _)
Rep(s, n) ==
    IF n = 0 THEN ""
    ELSE LET h == Rep(s, n \div 2)
         IN  IF n % 2 = 0 THEN h \o h ELSE h \o h \o s

\* kubernetes.go:91-113  the logs GetPodLogs may return: of alternating
\* characters, none, one, and from one less than the budget of the prompt on
PromptLogs ==
    LET Text(n) == IF n % 2 = 0 THEN Rep("ab", n \div 2)
                                ELSE "b" \o Rep("ab", n \div 2)
    IN  { Text(n) : n \in {0, 1, 2 * LogBudget}
                         \cup { LogBudget + d : d \in (0 - 1)..MaxLogOver } }

\* kubernetes.go:116-124  the lists the API server may return for the pod, in
\* an order the client does not choose: events at distinct times, the oldest
\* first, the newest first, or starting in the middle
EventLists ==
    UNION { { [i \in 1..n |-> Event(i)],
              [i \in 1..n |-> Event(n + 1 - i)] }
            \cup { [i \in 1..n |-> Event(((i + k) % n) + 1)] : k \in {n \div 2} }
            : n \in 0..MaxEvents }

\* kubernetes.go:66-89  the pods GetPodInfo may return with no error, the
\* container list as the object decoded from the API carries it
PromptPodInfos ==
    { [Pod |-> "api", Containers |-> c, Logs |-> l,
       Events |-> GetPodEvents(items, cutoff)] :
        c \in 0..1, l \in PromptLogs, items \in EventLists, cutoff \in 0..1 }

\* agent.go:83-95  AnalyzeAlert with the pod collected, about to build the
\* prompt
InitPrompt ==
    /\ HandlerIdle
    /\ StoreIdle
    /\ text = <<>>
    /\ ppc = "off"
    /\ sc = NoScan
    /\ jsonStr = NotExtracted
    /\ analysis = NoAnalysis
    /\ result = NoResult
    /\ clock = 0
    /\ prev = NoResult
    /\ llmClient \in Providers
    /\ apc = "prompt"
    /\ podInfo \in PromptPodInfos
    /\ fetched = NoFetch
    /\ prompt = NoPrompt
    /\ aret = NoReturn
    /\ steps = <<Step("collect", "ok")>>
    /\ tsIn = <<>>
    /\ tsFmt = 0
    /\ tsOut = NoTime

NextPrompt == APrompt

SpecPrompt == InitPrompt /\ [][NextPrompt]_vars

(***************************************************************************)
(* Properties of AnalyzeAlert.                                             *)
(***************************************************************************)
StepOrder == <<"collection", "prompt", "model", "normalisation">>

StepNames == [n \in 1 .. Len(steps) |-> steps[n].step]

CollectorFailed == Len(steps) >= 1 /\ steps[1].outcome # "ok"

ModelInvoked == \E n \in 1 .. Len(steps) : steps[n].step = "model"

\* C12: when the collector fails, AnalyzeAlert returns an error and no
\* report and the model client is not invoked; the steps of an analysis are
\* taken in the order collection, prompt, model call, normalisation, each
\* after the one before it has succeeded.
C12_CollectFirst ==
    /\ CollectorFailed =>
          /\ apc = "returned"
          /\ aret.err # ""
          /\ aret.result = NoResult
          /\ ~ ModelInvoked
          /\ prompt = NoPrompt
    /\ StepNames = SubSeq(StepOrder, 1, Len(steps))
    /\ \A n \in 2 .. Len(steps) : steps[n - 1].outcome = "ok"
    /\ (ppc # "off" => Len(steps) = 4)

C12_Witness ==
    /\ CollectorFailed
    /\ steps[1].outcome = "deadline"
    /\ apc = "returned"

ModelFailed == \E n \in 1 .. Len(steps) : steps[n].step = "model" /\ steps[n].outcome # "ok"

NormaliserCalled == \E n \in 1 .. Len(steps) : steps[n].step = "normalisation"

\* C13: when the model call fails, AnalyzeAlert returns an error and no
\* report; an empty completion is a failure of the model call too, and is
\* never handed to the normaliser.
C13_ModelFailureAborts ==
    /\ ModelFailed =>
          /\ apc = "returned"
          /\ aret.err # ""
          /\ aret.result = NoResult
          /\ ~ NormaliserCalled
    /\ NormaliserCalled => text # <<>>

\* The pair returned holds the output of the normaliser run on the reply of
\* a completed model call.
ReturnsNormaliserOutput ==
    /\ aret.result = result
    /\ ppc = "done"
    /\ Len(steps) = 4
    /\ \A n \in 1 .. 4 : steps[n].outcome = "ok"
    /\ \E t1 \in 0 .. MaxClock, t2 \in 0 .. MaxClock :
          aret.result = BuildResult(ParseReq, text,
                                    extractAndParseJSON(text, jsonStr, t1), t2)

\* C14: AnalyzeAlert returns either an error and no report, or a report and
\* no error, the report being the whole output of the normaliser on the
\* reply; nothing is returned before that.
C14_ReportXorError ==
    /\ apc # "returned" => aret = NoReturn
    /\ apc = "returned" =>
          \/ aret.err # "" /\ aret.result = NoResult
          \/ aret.err = "" /\ aret.result # NoResult /\ ReturnsNormaliserOutput

C14_Witness ==
    /\ apc = "returned"
    /\ aret.err = ""
    /\ aret.result.Analysis.RootCause = <<"OOM">>
    /\ Len(aret.result.Analysis.Reasoning) > 0

(***************************************************************************)
(* The deadline of the batch.                                              *)
(***************************************************************************)
DeadlineMessages == {CollectError("deadline"), ModelError("deadline")}

\* The last call task j made with the batch context was cut by the deadline.
CutByDeadline(j) ==
    /\ Len(calls[j]) > 0
    /\ calls[j][Len(calls[j])][1] \in {"collector", "model"}
    /\ calls[j][Len(calls[j])][2] = "deadline"

\* Task j is past its append to the accumulator.
Recorded(j) == tpc[j] \in {"unlockE", "unlockR", "exit", "done"}

\* C15: the deadline is one for the whole batch: once it has elapsed, the
\* collector or model call of every task still in flight fails, the task
\* records an ordinary Failure with the message of that error, and the
\* response is complete all the same: one outcome per alert and
\* Analyzed + Failed = Received.
C15_SharedDeadline ==
    /\ [](\A j \in Tasks :
            CutByDeadline(j) =>
                /\ tpc[j] \in {"lockE", "appendE", "unlockE", "exit", "done"}
                /\ terr[j] \in DeadlineMessages
                /\ Recorded(j) =>
                      /\ EntriesOf(results, j) = 0
                      /\ \E n \in 1 .. Len(errors) :
                            errors[n].idx = j /\ errors[n].Error = terr[j]
                                /\ errors[n].Fingerprint = TaskAlert(j).Fingerprint)
    /\ [](Responded /\ expired =>
            /\ \A j \in Tasks :
                  EntriesOf(response.Results, j) + EntriesOf(response.Errors, j) = 1
            /\ response.Analyzed + response.Failed = response.Received
            /\ response.Received = Len(webhook.Alerts))
    /\ [][\A j \in Tasks :
            expired /\ run = 1 /\ tpc[j] \in {"collect", "model"} /\ tpc'[j] # tpc[j] =>
                tpc'[j] = "lockE" /\ terr'[j] \in DeadlineMessages]_vars

C15_Witness ==
    /\ Responded
    /\ expired
    /\ response.Analyzed = 1
    /\ \E n \in 1 .. Len(response.Errors) :
          response.Errors[n].Error = ModelError("deadline")

(***************************************************************************)
(* What the entries of the accumulator carry.                              *)
(***************************************************************************)
\* The message of the error the analyzer call of task j returned.
AnalyzerErrorOf(j) ==
    LET c == calls[j][Len(calls[j])]
    IN IF c[1] = "collector" THEN CollectError(c[2]) ELSE ModelError(c[2])

AnalyzerFailed(j) ==
    /\ Len(calls[j]) > 0
    /\ calls[j][Len(calls[j])][1] \in {"collector", "model"}
    /\ calls[j][Len(calls[j])][2] # "ok"

\* C16: a Results entry carries the fingerprint, name, namespace, pod,
\* severity and status of the alert of the task that appended it and the
\* report that task's analyzer call returned, and no report is in two
\* entries; an Errors entry carries the fingerprint and the name of its
\* alert and, after an analyzer failure, the message of the error returned.
C16_EntriesCarryOwnAlert ==
    /\ \A n \in 1 .. Len(results) :
          LET j == results[n].idx
              a == webhook.Alerts[j]
          IN /\ results[n].Fingerprint = a.Fingerprint
             /\ results[n].AlertName = GetAlertName(a)
             /\ results[n].Namespace = GetNamespace(a)
             /\ results[n].Pod = GetPodName(a)
             /\ results[n].Severity = GetSeverity(a)
             /\ results[n].Status = a.Status
             /\ results[n].Analysis = tres[j].Analysis
             /\ results[n].Analysis = [reply |-> j]
    /\ \A n, m \in 1 .. Len(results) :
          n # m => results[n].Analysis # results[m].Analysis
    /\ \A n \in 1 .. Len(errors) :
          LET j == errors[n].idx
              a == webhook.Alerts[j]
          IN /\ errors[n].Fingerprint = a.Fingerprint
             /\ errors[n].AlertName = GetAlertName(a)
             /\ AnalyzerFailed(j) => errors[n].Error = AnalyzerErrorOf(j)
    /\ Responded => response.Results = results /\ response.Errors = errors

C16_Witness ==
    /\ Responded
    /\ Len(response.Results) = 1
    /\ Len(response.Errors) = 1
    /\ response.Results[1].idx = 2
    /\ response.Results[1].Fingerprint # response.Errors[1].Fingerprint
    /\ response.Errors[1].Error = CollectError("error")

(***************************************************************************)
(* Normalising the same reply twice.                                       *)
(***************************************************************************)
NormalisedTwice == ppc = "done" /\ prev # NoResult

\* A timestamp without the reading of the clock it holds when it was not
\* parsed from its string.
Unclocked(ts) == [ts EXCEPT !.wall = IF @ = -1 THEN -1 ELSE 0]

UnclockedEntries(sl) ==
    [sl EXCEPT !.elems = [n \in 1 .. Len(sl.elems) |->
                             [sl.elems[n] EXCEPT !.Timestamp = Unclocked(@)]]]

UnclockedAnalysis(a) ==
    [a EXCEPT !.Timeline = UnclockedEntries(@),
              !.Evidence = [Logs |-> UnclockedEntries(@.Logs),
                            Events |-> UnclockedEntries(@.Events)]]

\* C17 as stated: two normalisations of the same reply give reports equal
\* in every field, the timestamps of their entries included.
C17_Idempotent ==
    NormalisedTwice => result.Analysis = prev.Analysis

\* C17 as amended: two normalisations of the same reply give reports equal
\* in every field, except that an entry whose timestamp string matches no
\* layout holds the time of the clock at each normalisation.
C17_IdempotentButClock ==
    NormalisedTwice =>
        UnclockedAnalysis(result.Analysis) = UnclockedAnalysis(prev.Analysis)

C17_Witness ==
    /\ NormalisedTwice
    /\ Len(result.Analysis.Timeline.elems) = 2
    /\ result.Analysis.Timeline.elems[1].Timestamp.wall = -1
    /\ result.Analysis.Timeline.elems[2].Timestamp.wall = 1
    /\ prev.Analysis.Timeline.elems[2].Timestamp.wall = 0

(***************************************************************************)
(* parseTimestamp by itself, agent.go:379-397, one layout at a time.       *)
(***************************************************************************)
MaxTsLen == 4

TsAtoms == {"2024-01-01", "15:04:05", ".5", "Z", "T", " ", "x"}

\* The strings parseTimestamp is called with: every short string, the empty
\* one included, and the full date-times with a zone and a fraction.
TimestampStrings ==
    SeqsUpTo(TsAtoms, MaxTsLen)
    \cup { <<"2024-01-01", sep, "15:04:05", ".5", z>> : sep \in {"T", " "}, z \in Zones }
    \cup { <<"2024-01-01", "T", "10:00:00", "+02:00">>, <<"10:00:00">> }

\* agent.go:389-393  one iteration of the loop over formats
TryLayout ==
    /\ tsFmt \in 1 .. Len(formats)
    /\ tsOut = NoTime
    /\ IF TimeParse(formats[tsFmt], tsIn).ok
       THEN tsOut' = TimeParse(formats[tsFmt], tsIn).t /\ tsFmt' = tsFmt
       ELSE tsOut' = tsOut /\ tsFmt' = tsFmt + 1
    /\ UNCHANGED <<tsIn, bvars, pvars, avars, svars>>

\* agent.go:396  no layout has parsed
ReturnNow ==
    /\ tsFmt > Len(formats)
    /\ tsOut = NoTime
    /\ tsOut' = TimeNow(clock)
    /\ UNCHANGED <<tsIn, tsFmt, bvars, pvars, avars, svars>>

\* Time passes while parseTimestamp runs.
TsTick ==
    /\ tsFmt >= 1
    /\ tsOut = NoTime
    /\ clock < MaxClock
    /\ clock' = clock + 1
    /\ UNCHANGED <<text, ppc, sc, jsonStr, analysis, result, prev, bvars, avars, tvars, svars>>

InitTime ==
    /\ HandlerIdle
    /\ StoreIdle
    /\ text = <<>>
    /\ ppc = "off"
    /\ sc = NoScan
    /\ jsonStr = NotExtracted
    /\ analysis = NoAnalysis
    /\ result = NoResult
    /\ clock = 0
    /\ prev = NoResult
    /\ llmClient = "none"
    /\ apc = "off"
    /\ podInfo = NoPodInfo
    /\ fetched = NoFetch
    /\ prompt = NoPrompt
    /\ aret = NoReturn
    /\ steps = <<>>
    /\ tsIn \in TimestampStrings
    /\ tsFmt = 1
    /\ tsOut = NoTime

NextTime ==
    \/ TryLayout
    \/ ReturnNow
    \/ TsTick

SpecTime == InitTime /\ [][NextTime]_vars

(***************************************************************************)
(* Properties of parseTimestamp.                                           *)
(***************************************************************************)
TsReturned == tsFmt >= 1 /\ tsOut # NoTime

\* The accepted layouts in their order: RFC 3339, RFC 3339 with sub-second
\* precision, date-time without zone, space-separated date-time, time of day.
LayoutOrder ==
    <<"RFC3339", "RFC3339Nano", "2006-01-02T15:04:05", "2006-01-02 15:04:05", "15:04:05">>

\* The layouts that parse ts.
Parsing(ts) == { n \in 1 .. Len(LayoutOrder) : TimeParse(LayoutOrder[n], ts).ok }

\* C18: a string that no layout parses, the empty string included, gets the
\* time of the clock at the moment of the call; parseTimestamp returns a
\* time for every string and has no other way to end.
C18_FallbackIsNow ==
    /\ TsReturned /\ Parsing(tsIn) = {} => tsOut = TimeNow(clock) /\ tsOut.wall = clock
    /\ TsReturned => tsOut.wall \in {-1, clock}
    /\ tsFmt \in 0 .. Len(LayoutOrder) + 1
    /\ tsFmt = Len(LayoutOrder) + 1 => Parsing(tsIn) = {}

C18_Witness ==
    /\ TsReturned
    /\ tsIn = <<>>
    /\ clock = MaxClock
    /\ tsOut.wall = MaxClock

FirstParsing(ts) == CHOOSE n \in Parsing(ts) : \A m \in Parsing(ts) : n <= m

\* C19: the layouts are tried in their order and the time returned is the
\* one the first layout that parses gives; the string "15:04:05" is parsed
\* by the time-of-day layout and does not get the current time.
C19_FirstLayoutWins ==
    /\ TsReturned /\ Parsing(tsIn) # {} =>
          /\ tsFmt = FirstParsing(tsIn)
          /\ tsOut = TimeParse(LayoutOrder[FirstParsing(tsIn)], tsIn).t
          /\ tsOut.wall = -1
    /\ tsFmt >= 1 /\ tsOut = NoTime =>
          \A n \in 1 .. tsFmt - 1 : n <= Len(LayoutOrder) => n \notin Parsing(tsIn)
    /\ TsReturned /\ tsIn = <<"15:04:05">> =>
          /\ tsFmt = 5
          /\ tsOut = [date |-> "0000-01-01", time |-> "15:04:05", frac |-> "",
                      zone |-> "Z", wall |-> -1]

C19_Witness ==
    /\ TsReturned
    /\ tsIn = <<"15:04:05">>
    /\ clock = 1
    /\ tsOut.time = "15:04:05"

(***************************************************************************)
(* A reply made of prose and an object that decodes.                       *)
(***************************************************************************)
\* The part of s from its first opening brace on.
FromFirstBrace(s) ==
    LET opens == Positions(s, "{")
    IN IF opens = {} THEN <<>>
       ELSE SubSeq(s, CHOOSE x \in opens : \A y \in opens : x <= y, Len(s))

ScenarioA == <<"I think the issue is memory.", NL>> \o ObjScenarioA

\* C20: when the reply is prose followed by an object that decodes with a
\* non-empty root_cause, rootCause, confidence and reasoning of the report
\* are the decoded ones ("OOM" and "high" for scenario A) and the report is
\* the one of the object alone: the prose is not in it.
C20_DecodedFieldsKept ==
    ppc = "done" =>
        LET obj == FromFirstBrace(text)
            u == Unmarshal(obj)
        IN /\ (obj # <<>> /\ ~ u.err /\ u.val.root_cause # <<>>) =>
                 /\ result.Analysis.RootCause = u.val.root_cause
                 /\ result.Analysis.Confidence = u.val.confidence
                 /\ result.Analysis.Reasoning = u.val.reasoning
                 /\ \E t \in 0 .. MaxClock :
                       result.Analysis = ConvertAnalysis(u.val, t)
           /\ text = ScenarioA =>
                 /\ result.Analysis.RootCause = <<"OOM">>
                 /\ result.Analysis.Confidence = <<"high">>
                 /\ result.Analysis.Reasoning = <<"r">>

C20_Witness ==
    /\ ppc = "done"
    /\ text = ScenarioA
    /\ jsonStr = ObjScenarioA
    /\ result.Analysis.RootCause = <<"OOM">>

(***************************************************************************)
(* The analyses table on its own: a sequence of SaveAnalysis calls with    *)
(* reports that agree or differ in each column of the key.                 *)
(***************************************************************************)
MaxSaves == 3

\* part_006:5-17  reports as SaveAnalysis reads them: the first two share
\* their key, the others differ from the first in one column of the key each.
StoreReports ==
    { [Alert |-> [Name |-> "PodIncident", Namespace |-> k[1], Pod |-> k[2],
                  StartedAt |-> k[3]],
       Analysis |-> [reply |-> k[4]]] :
         k \in { <<"prod", "web-0", 0, 1>>, <<"prod", "web-0", 0, 2>>,
                 <<"prod", "web-0", 1, 1>>, <<"prod", "db-0", 0, 1>>,
                 <<"dev", "web-0", 0, 1>> } }

\* part_008:83-121  one call of SaveAnalysis; an Exec that fails writes nothing
StoreSave ==
    /\ Len(saved) < MaxSaves
    /\ \E res \in StoreReports, ok \in BOOLEAN :
          /\ now' \in {now, now + 1}
          /\ store' = IF ok THEN SaveAnalysis(store, res, now') ELSE store
          /\ saved' = Append(saved, [res |-> res, ok |-> ok])
    /\ UNCHANGED <<webhook, hpc, spawned, wg, mu, results, errors, response, status,
                   tpc, terr, tres, calls,
                   run, flipped, replay, first, expired, tbuf, pvars, avars, tvars>>

InitStore ==
    /\ HandlerIdle
    /\ text = <<>>
    /\ ppc = "off"
    /\ sc = NoScan
    /\ jsonStr = NotExtracted
    /\ analysis = NoAnalysis
    /\ result = NoResult
    /\ clock = 0
    /\ prev = NoResult
    /\ AnalyzerIdle
    /\ StoreIdle

NextStore == StoreSave

SpecStore == InitStore /\ [][NextStore]_vars

KeyOf(r) == <<r.namespace, r.pod_name, r.alert_started_at>>
ReportKey(res) == <<res.Alert.Namespace, res.Alert.Pod, res.Alert.StartedAt>>
Keys(rows) == { KeyOf(r) : r \in rows }
RowOf(rows, k) == CHOOSE r \in rows : KeyOf(r) = k
LastCall == saved'[Len(saved')]
Saving == Len(saved') = Len(saved) + 1 /\ LastCall.ok
SavingAgain == Saving /\ saved # <<>> /\ saved[Len(saved)] = LastCall
WithoutCreatedAt(rows) ==
    { [alert_name |-> r.alert_name, namespace |-> r.namespace, pod_name |-> r.pod_name,
       alert_started_at |-> r.alert_started_at, analysis |-> r.analysis] : r \in rows }

OnePerKey == Cardinality(Keys(store)) = Cardinality(store)
ReplacesInPlace ==
    Saving /\ ReportKey(LastCall.res) \in Keys(store) =>
        /\ Cardinality(store') = Cardinality(store)
        /\ LET r == RowOf(store', ReportKey(LastCall.res))
           IN  /\ r.analysis = LastCall.res.Analysis
               /\ r.alert_name = LastCall.res.Alert.Name
               /\ r.created_at = now'

\* C21 (as stated): at most one record per key; saving a report whose key
\* exists replaces the record's fields and leaves the count unchanged; and
\* saving the same report twice leaves the same stored state as saving it once.
C21_IdempotentUpsert ==
    /\ []OnePerKey
    /\ [][ReplacesInPlace]_vars
    /\ [][SavingAgain => store' = store]_vars

\* C21 (amended): as above, but the second save of the same report leaves the
\* same stored state except for the record's created_at, which is the time of
\* the last save.
C21_UpsertRefreshesCreatedAt ==
    /\ []OnePerKey
    /\ [][ReplacesInPlace]_vars
    /\ [][SavingAgain => WithoutCreatedAt(store') = WithoutCreatedAt(store)]_vars

\* the same report was saved twice, the clock having moved in between, after
\* a report of another key and a report of the same key were saved
C21_Witness ==
    /\ Len(saved) = 3
    /\ saved[2] = saved[3] /\ saved[2].ok
    /\ saved[1].ok /\ ReportKey(saved[1].res) = ReportKey(saved[2].res)
    /\ saved[1].res # saved[2].res
    /\ Cardinality(store) = 1
    /\ \E r \in store : r.created_at = 2

(***************************************************************************)
(* Validation and fan-out.                                                 *)
(***************************************************************************)
FailsValidation(a) == IsSkipped(GetNamespace(a), GetPodName(a))
Launched == { j \in Tasks : tpc[j] # "idle" }
ValidAlerts == { j \in Tasks : ~ FailsValidation(webhook.Alerts[j]) }

\* C22: no concurrent task is ever launched for an alert that fails the
\* namespace/pod validation, and once the batch is answered the number of
\* tasks launched equals the number of alerts that pass validation.
C22_ValidationBeforeFanOut ==
    /\ \A j \in Launched : ~ FailsValidation(webhook.Alerts[j])
    /\ Responded => spawned = Cardinality(ValidAlerts)

(***************************************************************************)
(* The mutex of the batch.                                                 *)
(***************************************************************************)
InAppend == { j \in Tasks : tpc[j] \in {"appendE", "appendR"} }
Holding == { j \in Tasks : tpc[j] \in {"appendE", "appendR", "unlockE", "unlockR"} }
Appended == { j \in Tasks : tpc[j] \in {"unlockE", "unlockR", "exit", "done"} }
AfterBarrier == webhook.ok /\ hpc \in {"respond", "done"}

\* C23: every append to results or errors is made by the task that holds the
\* mutex, never two tasks are inside an append at once, and no append is
\* lost: the two sequences together always have one entry per append made,
\* in particular after the barrier.
C23_AppendsUnderMutex ==
    /\ \A j \in Holding : mu = j
    /\ Cardinality(InAppend) <= 1
    /\ Len(results) + Len(errors) = Cardinality(Appended)
    /\ AfterBarrier => Len(results) + Len(errors) = Cardinality(Appended)

\* one task is inside its append, holding the mutex, while the other task of
\* the batch waits for it
C23_Witness ==
    \E j, k \in Tasks : /\ tpc[j] = "appendR" /\ tpc[k] \in {"lockE", "lockR"}
                        /\ mu = j

(***************************************************************************)
(* Ownership of the state of a batch.                                      *)
(***************************************************************************)
\* a step of the goroutine of alert j
TaskStep(j) == tpc[j] # "idle" /\ tpc'[j] # tpc[j]

\* the request, evidence and report of every other task, and the state of
\* the coordinator, are left alone
OthersUntouched(j) ==
    /\ \A k \in Tasks \ {j} : /\ tres'[k] = tres[k] /\ terr'[k] = terr[k]
                              /\ calls'[k] = calls[k] /\ tbuf'[k] = tbuf[k]
                              /\ tpc'[k] = tpc[k]
    /\ webhook' = webhook /\ hpc' = hpc /\ spawned' = spawned
    /\ response' = response /\ status' = status

AccumulatorGuarded(j) == results' # results \/ errors' # errors => mu = j

\* C24 (as stated): a step of a task writes nothing but that task's own
\* request, evidence and report, and the accumulator under the mutex (the
\* mutex and the wait group apart): no other state is touched by two tasks.
C24_OnlyAccumulatorShared ==
    [][\A j \in Tasks : TaskStep(j) =>
          /\ OthersUntouched(j)
          /\ AccumulatorGuarded(j)
          /\ store' = store]_vars

\* C24 (amended): as above, but a task also writes the analyses store, by
\* one upsert of its own report, made after its analysis and before its append.
C24_AccumulatorAndStoreShared ==
    [][\A j \in Tasks : TaskStep(j) =>
          /\ OthersUntouched(j)
          /\ AccumulatorGuarded(j)
          /\ store' # store =>
                /\ tpc[j] = "save"
                /\ tres[j] # NoResult
                /\ store' = SaveAnalysis(store, tres[j], now)]_vars

\* both tasks of a batch have written the store, and both have appended
C24_Witness ==
    /\ Len(webhook.Alerts) = 2
    /\ \A j \in Tasks : /\ Len(calls[j]) = 3 /\ calls[j][3] = <<"store", "ok">>
                        /\ tpc[j] = "done"
    /\ Cardinality(store) = 2

\* C25: for every text, extractJSON returns what the reference scanner
\* returns: depth 1 on the first opening brace, a backslash is an escape only
\* inside a string, a quote toggles the string, braces inside a string do not
\* count, and the scan ends at the first closing brace that brings the depth
\* to zero (the empty string when there is no such brace).
C25_MatchesReferenceScanner ==
    Extracted => jsonStr = TrueSpan(text)

(***************************************************************************)
(* What becomes of the extracted span.                                     *)
(***************************************************************************)
\* The report parseAnalysisResponse builds at time c for a reply t in which
\* extractJSON finds nothing.
NoJSONReport(t, c) == BuildResult(ParseReq, t, extractAndParseJSON(t, <<>>, c), c)

DecodeFailed == ppc = "done" /\ jsonStr # <<>> /\ Unmarshal(jsonStr).err
Decoded == ppc = "done" /\ jsonStr # <<>> /\ ~ Unmarshal(jsonStr).err

\* C26: when the span extractJSON returned does not decode (a syntax error
\* or a field of the wrong type), the report is the one built for the same
\* reply when no JSON is found in it: its reasoning is the whole reply, not
\* the span, and nothing of the span is kept.
C26_DecodeFailureAsNoJSON ==
    DecodeFailed =>
        /\ result = NoJSONReport(text, clock)
        /\ result.Analysis.Reasoning = text

\* a span inside prose whose root_cause has the wrong type and whose
\* reasoning would have decoded
C26_Witness ==
    /\ DecodeFailed
    /\ jsonStr = ObjWrongType
    /\ Len(text) > Len(jsonStr)
    /\ ParseJSON(jsonStr).ok

\* C27: when the span decodes, the report carries the decoded values, absent
\* fields being empty: root cause and reasoning are those of the decoded
\* object, the sequences are the decoded ones, and the report is never the
\* degraded one, also for an object without root_cause and reasoning or
\* without any field.
C27_AbsentFieldsAreZero ==
    Decoded =>
        LET r == Unmarshal(jsonStr).val
        IN  /\ result.Analysis.RootCause = r.root_cause
            /\ result.Analysis.Reasoning = r.reasoning
            /\ result.Analysis.RootCause # <<"Unable to parse LLM response">>
            /\ Len(result.Analysis.Timeline.elems) = Len(r.timeline.elems)
            /\ Len(result.Analysis.Evidence.Logs.elems) = Len(r.evidence.logs.elems)
            /\ Len(result.Analysis.Evidence.Events.elems) = Len(r.evidence.events.elems)
            /\ Len(result.Analysis.Recommendations.elems) = Len(r.recommendations.elems)

\* C28: for every reply whose span decodes, the confidence of the report is
\* the decoded confidence string, whether or not it is one of high, medium
\* and low.
C28_ConfidenceVerbatim ==
    Decoded => result.Analysis.Confidence = Unmarshal(jsonStr).val.confidence

\* The timestamp of an entry of the report is parseTimestamp of the raw
\* string, read at some moment up to now.
Normalised(ts, raw) == \E c \in 0 .. clock : ts = parseTimestamp(raw, c)

\* C29: on a successful decode the timeline, the evidence logs, the evidence
\* events and the recommendations of the report have the length and the
\* order of the decoded arrays, every field but the timestamp is copied, and
\* every timestamp is parseTimestamp of the entry's raw string.
C29_SequencesConverted ==
    Decoded =>
        LET r == Unmarshal(jsonStr).val
            a == result.Analysis
        IN  /\ Len(a.Timeline.elems) = Len(r.timeline.elems)
            /\ \A n \in 1 .. Len(r.timeline.elems) :
                  /\ a.Timeline.elems[n].Event = r.timeline.elems[n].event
                  /\ a.Timeline.elems[n].Details = r.timeline.elems[n].details
                  /\ Normalised(a.Timeline.elems[n].Timestamp,
                                r.timeline.elems[n].timestamp)
            /\ Len(a.Evidence.Logs.elems) = Len(r.evidence.logs.elems)
            /\ \A n \in 1 .. Len(r.evidence.logs.elems) :
                  /\ a.Evidence.Logs.elems[n].Line = r.evidence.logs.elems[n].line
                  /\ a.Evidence.Logs.elems[n].Container = r.evidence.logs.elems[n].container
                  /\ Normalised(a.Evidence.Logs.elems[n].Timestamp,
                                r.evidence.logs.elems[n].timestamp)
            /\ Len(a.Evidence.Events.elems) = Len(r.evidence.events.elems)
            /\ \A n \in 1 .. Len(r.evidence.events.elems) :
                  /\ a.Evidence.Events.elems[n].Type = r.evidence.events.elems[n].type
                  /\ a.Evidence.Events.elems[n].Reason = r.evidence.events.elems[n].reason
                  /\ a.Evidence.Events.elems[n].Message = r.evidence.events.elems[n].message
                  /\ Normalised(a.Evidence.Events.elems[n].Timestamp,
                                r.evidence.events.elems[n].timestamp)
            /\ Len(a.Recommendations.elems) = Len(r.recommendations.elems)
            /\ \A n \in 1 .. Len(r.recommendations.elems) :
                  /\ a.Recommendations.elems[n].Priority = r.recommendations.elems[n].priority
                  /\ a.Recommendations.elems[n].Action = r.recommendations.elems[n].action
                  /\ a.Recommendations.elems[n].Details = r.recommendations.elems[n].details
                  /\ a.Recommendations.elems[n].Command = r.recommendations.elems[n].command

\* the reply with two timeline entries, one of which has a timestamp no
\* layout accepts, a log entry, an event without timestamp and a
\* recommendation, normalised after the clock has moved
C29_Witness ==
    /\ Decoded
    /\ jsonStr = ObjFull
    /\ clock = 1
    /\ Len(result.Analysis.Timeline.elems) = 2
    /\ result.Analysis.Timeline.elems[1].Event = <<"e">>
    /\ result.Analysis.Timeline.elems[2].Details = <<"d">>
    /\ Len(result.Analysis.Evidence.Events.elems) = 1
    /\ result.Analysis.Evidence.Events.elems[1].Timestamp = TimeNow(1)

(***************************************************************************)
(* The collector.                                                          *)
(***************************************************************************)
Collected == fetched # NoFetch
PodResolved == Collected /\ fetched.pod = "ok"
PastPrompt == apc \in {"model", "normalise", "parse", "returned"}

RECURSIVE OldestFirst(_)
OldestFirst(events) ==
    IF Len(events) = 0 THEN <<>>
    ELSE LET m == CHOOSE i \in 1..Len(events) :
                      \A k \in 1..Len(events) :
                          events[i].LastTimestamp <= events[k].LastTimestamp
             rest == [k \in 1..(Len(events) - 1) |->
                          IF k < m THEN events[k] ELSE events[k + 1]]
         IN  <<events[m]>> \o OldestFirst(rest)

MostRecent(events) ==
    LET sorted == OldestFirst(events)
        n == Len(sorted)
    IN  SubSeq(sorted, IF n > EventLimit THEN n - EventLimit + 1 ELSE 1, n)

RECURSIVE Lines(_)
Lines(events) ==
    IF Len(events) = 0 THEN ""
    ELSE EventLine(Head(events)) \o Lines(Tail(events))

\* C31: when the pod has events, the prompt embeds the EventLimit most recent
\* of them (all of them when there are no more than EventLimit), the oldest
\* first; none of them is dropped in favour of an older event.
C31_MostRecentEventsOldestFirst ==
    apc = "model" /\ Len(podInfo.Events) > 0 =>
        prompt.Events = Lines(MostRecent(podInfo.Events))

LogTail(logs) == SubSeq(logs, Len(logs) - LogBudget + 1, Len(logs))

\* C32: the log text embedded in the prompt is never longer than LogBudget
\* characters: logs within the budget are embedded unchanged, longer logs are
\* cut to their last LogBudget characters, and what is embedded for them is
\* still within the budget.
C32_LogsWithinBudget ==
    apc = "model" =>
        /\ Len(prompt.Logs) <= LogBudget
        /\ (Len(podInfo.Logs) <= LogBudget => prompt.Logs = podInfo.Logs)
        /\ (Len(podInfo.Logs) > LogBudget => prompt.Logs = LogTail(podInfo.Logs))

\* C37: building the prompt cannot fault: for every pod the collector returns
\* with no error, a pod with an empty container list included, the prompt is
\* built and the analysis never reaches a crash.
C37_PromptNeverFaults ==
    /\ apc # "panic"
    /\ (podInfo.Pod # "nil" /\ apc \notin {"off", "collect", "prompt"} =>
            prompt # NoPrompt)

\* ---- C33: liveness of the barrier ----

\* The steps of the goroutine of alert j.
TaskRuns(j) ==
    /\ j \in Tasks
    /\ \/ Validate(j)
       \/ Collect(j)
       \/ Model(j)
       \/ Save(j)
       \/ Lock(j)
       \/ AppendError(j)
       \/ AppendResult(j)
       \/ Unlock(j)
       \/ Done(j)

\* The Go scheduler runs every goroutine that can run, and every call to a
\* collaborator returns: a step of the handler or of a task that stays
\* possible is eventually taken.  The deadline of the context may or may not
\* elapse.
Fairness ==
    /\ WF_vars(Bind)
    /\ WF_vars(Spawn)
    /\ WF_vars(Wait)
    /\ WF_vars(Respond)
    /\ \A j \in 1 .. MaxAlerts : WF_vars(TaskRuns(j))

\* The batches of the fair runs: of alerts that pass the validation and of
\* alerts that fail it, the two ways a task can start.
InitLive ==
    /\ InitBatch
    /\ \A n \in 1 .. Len(webhook.Alerts) :
          \/ webhook.Alerts[n].Fingerprint = "fp1"
          \/ DOMAIN webhook.Alerts[n].Labels = {}

SpecLive == InitLive /\ [][Next]_vars /\ Fairness

\* The tasks launched that have not yet signalled the barrier.
Unsignalled == { j \in Tasks : tpc[j] \notin {"idle", "done"} }

BatchAnswered ==
    /\ hpc = "done"
    /\ webhook.ok => /\ response # NoResponse
                     /\ \A j \in Tasks : tpc[j] = "done"
                     /\ wg = 0

\* C33: under fair scheduling, every call returning, every batch is
\* eventually answered; every task launched signals the barrier exactly once
\* on each of its paths, so the barrier counts the tasks that have not yet
\* signalled and is at zero, all tasks finished, when the answer is built.
C33_BatchEventuallyAnswered ==
    /\ [](wg = Cardinality(Unsignalled))
    /\ <>BatchAnswered

C33_Witness ==
    /\ BatchAnswered
    /\ Len(webhook.Alerts) = MaxAlerts
    /\ Len(results) >= 1
    /\ Len(errors) >= 1

\* ---- C34: the store call of a task ----

\* The positions in calls[j] of the calls to the store.
StoreCalls(j) == { n \in 1 .. Len(calls[j]) : calls[j][n][1] = "store" }

\* Whether AnalyzeAlert returned a report to task j.
AnalysisSucceeded(j) ==
    /\ Len(calls[j]) >= 2
    /\ calls[j][1] = <<"collector", "ok">>
    /\ calls[j][2] = <<"model", "ok">>

SuccessEntries(j) == { n \in 1 .. Len(results) : results[n].idx = j }

FailureEntries(j) == { n \in 1 .. Len(errors) : errors[n].idx = j }

\* C34: a report is handed to the store only for an alert whose analysis
\* succeeded, at most once per alert, and before the Success entry of the
\* alert is appended; whether the store call succeeds or fails, the alert
\* ends in Results and in Analyzed, not in Errors or Failed.
C34_StoreCallOncePerSuccess ==
    \A j \in Tasks :
        /\ Cardinality(StoreCalls(j)) <= 1
        /\ (StoreCalls(j) # {} => AnalysisSucceeded(j) /\ StoreCalls(j) = {3})
        /\ (tpc[j] = "save" => StoreCalls(j) = {} /\ SuccessEntries(j) = {})
        /\ (SuccessEntries(j) # {} \/ tpc[j] = "appendR" => StoreCalls(j) # {})
        /\ (AfterBarrier /\ StoreCalls(j) # {} =>
               /\ Cardinality(SuccessEntries(j)) = 1
               /\ FailureEntries(j) = {})
        /\ (Responded /\ StoreCalls(j) # {} =>
               /\ response.Analyzed =
                      Cardinality({ k \in Tasks : AnalysisSucceeded(k) })
               /\ response.Failed =
                      Cardinality({ k \in Tasks : ~ AnalysisSucceeded(k) }))

C34_Witness ==
    /\ hpc = "done"
    /\ webhook.ok
    /\ \E j \in Tasks : /\ Len(calls[j]) = 3
                        /\ calls[j][3] = <<"store", "error">>
                        /\ SuccessEntries(j) # {}
                        /\ response.Analyzed >= 1

\* ---- C35: the labels an alert is validated by ----

\* The value an alert gives under a label or, when that label is absent or
\* empty, under the alternative label; "" when neither has a value.
LabelValue(a, primary, alternative) ==
    IF primary \in DOMAIN a.Labels /\ a.Labels[primary] # "" THEN a.Labels[primary]
    ELSE IF alternative \in DOMAIN a.Labels THEN a.Labels[alternative]
    ELSE ""

NamesPod(a) ==
    /\ LabelValue(a, "namespace", "kubernetes_namespace") # ""
    /\ LabelValue(a, "pod", "pod_name") # ""

Validated(j) == tpc[j] \notin {"idle", "start"}

RejectedForLabels(j) == terr[j] = MissingLabelsError

\* C35: an alert passes the validation exactly when its labels give a
\* non-empty namespace under namespace or kubernetes_namespace and a non-empty
\* pod under pod or pod_name; an alert whose primary label is present but
\* empty and whose alternative label has a value is analysed under the value
\* of the alternative.
C35_ValidatedByEitherLabel ==
    \A j \in Tasks :
        Validated(j) =>
            /\ RejectedForLabels(j) <=> ~ NamesPod(TaskAlert(j))
            /\ (tres[j] # NoResult =>
                   /\ tres[j].Alert.Namespace =
                          LabelValue(TaskAlert(j), "namespace", "kubernetes_namespace")
                   /\ tres[j].Alert.Pod = LabelValue(TaskAlert(j), "pod", "pod_name"))

\* ---- C36: the same alert delivered twice ----

\* The rows the store holds for the pod of an alert.
RowsOfAlert(a) ==
    { r \in store : r.namespace = GetNamespace(a) /\ r.pod_name = GetPodName(a) }

StoredOk(cs) == Len(cs) = 3 /\ cs[3] = <<"store", "ok">>

\* Alert j was analysed and stored in the first delivery and again in the
\* second, which is over.
StoredTwice(j) ==
    /\ run = 2
    /\ flipped = 0
    /\ hpc = "done"
    /\ StoredOk(replay[j])
    /\ StoredOk(calls[j])

\* C36: when the same alert is analysed successfully in two deliveries of the
\* webhook, the second analysis updates the record the first one stored: the
\* store ends with one record for the alert.
C36_RedeliveryUpdatesRecord ==
    \A j \in Tasks : StoredTwice(j) => Cardinality(RowsOfAlert(TaskAlert(j))) = 1

\* ---- C38: the scan loop of extractJSON ----

Scanning == ppc = "scan"

\* The character the next iteration of the loop examines.
Examined == text[sc.i + 1]

ScanInvariant ==
    /\ (Scanning => sc.startIdx = Index(text, "{")
                    /\ sc.i >= sc.startIdx /\ sc.i <= Len(text))
    /\ (Scanning /\ sc.i > sc.startIdx => sc.braceCount >= 1)
    /\ (ppc = "decode" /\ jsonStr # NoJSON =>
            /\ Head(jsonStr) = "{"
            /\ jsonStr[Len(jsonStr)] = "}"
            /\ jsonStr = SubSeq(text, Index(text, "{") + 1,
                                Index(text, "{") + Len(jsonStr)))

ScanAdvance ==
    Scanning =>
        /\ (Scanning' => sc'.i = sc.i + 1)
        /\ (sc'.braceCount # sc.braceCount =>
                /\ Examined \in {"{", "}"}
                /\ ~ sc.inString
                /\ ~ sc.escaped)

\* C38: in extractJSON the scan index grows by one with every iteration, so
\* no character from the first opening brace on is examined twice; once the
\* opening brace has been processed the brace counter is at least 1 until the
\* function returns; the counter changes only at a brace outside a string
\* with no escape pending; a result that is not empty starts with an opening
\* brace, ends with a closing brace and is the part of the text that begins
\* at the first opening brace.
C38_ScannerInvariants == [](ScanInvariant) /\ [][ScanAdvance]_vars

C38_Witness ==
    /\ ppc = "decode"
    /\ jsonStr # NoJSON
    /\ jsonStr # NotExtracted
    /\ sc.startIdx > 0
    /\ Len(jsonStr) < Len(text) - sc.startIdx
    /\ \E k \in 2 .. (Len(jsonStr) - 1) : jsonStr[k] = "}"

====
